---- MODULE Spec2Model ----
(***************************************************************************)
(* Control-flow-graph construction, basic-block merging and test           *)
(* visibility of cargo-graph.                                              *)
(*                                                                         *)
(*   src/src/graph/flow_graph.rs   FlowGraph (add_node, add_edge,          *)
(*                                 merge_basic_blocks, nodes, edges)       *)
(*   src/src/graph/node_type.rs    NodeType                                *)
(*   src/src/passes/analyzer.rs    ControlFlowAnalyzerPass                 *)
(*   src/src/passes/builder.rs     GraphBuilderPass                        *)
(*                                                                         *)
(* FlowGraph.graph is a petgraph DiGraph (petgraph::graph::Graph): nodes   *)
(* and edges live in two vectors and a NodeIndex / EdgeIndex is a position *)
(* in them.  Indices are 0-based as in the source; the vectors are TLA+    *)
(* sequences, so index i is element i + 1.                                 *)
(*                                                                         *)
(* Strings are sequences of tokens; the line break pushed by               *)
(* merge_sequence is the token NL.  The edge labels the analyzer writes as *)
(* Chinese literals carry the names the specification gives them:          *)
(*   "enter-test" jin ru pan duan   "true" shi        "false" fou          *)
(*   "done" wan cheng fen zhi       "enter-loop" jin ru xun huan           *)
(*   "check" jian cha tiao jian     "continue" ji xu xun huan              *)
(*   "break" tiao chu xun huan      "exhausted" tui chu xun huan           *)
(* and the block texts "merge-point" (fen zhi he bing dian), "loop-entry"  *)
(* (xun huan ru kou), "loop-exit" (xun huan jie shu).                      *)
(***************************************************************************)
EXTENDS Naturals, Integers, Sequences, FiniteSets, TLC

VARIABLES
  graph,            \* FlowGraph.graph: [nodes, edges, clock]
  config,           \* FlowGraph.config: [include_tests]
  log,              \* history: what the analyzer created for each construct
  pc,               \* position of the pipeline
  pass,             \* number of the merge_basic_blocks run in progress
  merged,           \* merge_basic_blocks: HashSet merged
  to_merge,         \* merge_basic_blocks: VecDeque to_merge
  function_starts,  \* merge_basic_blocks: HashSet function_starts
  sequence,         \* collect_mergeable_sequence: Vec sequence
  before,           \* history: the graph when the first pass began
  after1,           \* history: the graph when the first pass ended
  commits,          \* history: the chains merge_sequence was called with
  raw_label,        \* renderer.rs process_label: the label given
  emitted,          \* renderer.rs process_label: the text returned
  rust_files,       \* main.rs analyze_crate: Vec rust_files
  module_files,     \* main.rs analyze_crate: HashMap module_files
  renderer,         \* main.rs main: the renderer of args.style
  graphs,           \* main.rs analyze_crate: Vec graphs, (module_name, graph)
  dot_content,      \* main.rs main: what analyze_crate returned
  warnings,         \* main.rs analyze_crate: the lines written to stderr
  syntax,           \* lib.rs analyze_file: the items of the parsed file
  lib_graph,        \* lib.rs analyze_file: FlowGraph.graph
  result            \* lib.rs analyze_file: the text returned

\* the state of the graph pipeline, of the label renderer, of the crate
\* driver and of the library entry point
label_vars == <<raw_label, emitted>>
crate_vars == <<rust_files, module_files, renderer, graphs, dot_content,
                warnings>>
lib_vars == <<syntax, lib_graph, result>>
tool_vars == <<label_vars, crate_vars, lib_vars>>
pipeline_vars == <<graph, config, log, pass, merged, to_merge,
                   function_starts, sequence, before, after1, commits>>

vars == <<graph, config, log, pc, pass, merged, to_merge, function_starts,
          sequence, before, after1, commits, tool_vars>>

(***************************************************************************)
(* Bounds of the model.                                                    *)
(***************************************************************************)
MaxNodes == 8    \* nodes the builder may put into one graph
MaxBlock == 2    \* statements in one block
MaxArms  == 2    \* arms of one match
MaxWide  == 9    \* nodes of one graph whose functions hold no if and no while

NL == "\n"

(***************************************************************************)
(* NodeType.  A node weight is [kind, text, test, uid]; uid is a history   *)
(* field: the index the node was created with.                             *)
(***************************************************************************)
NodeKinds == {"Start", "End", "BasicBlock", "Condition", "Loop"}

Start(name, is_test, uid) ==
  [kind |-> "Start", text |-> <<name>>, test |-> is_test, uid |-> uid]
End(name, is_test, uid) ==
  [kind |-> "End", text |-> <<name>>, test |-> is_test, uid |-> uid]
BasicBlock(text, uid) ==
  [kind |-> "BasicBlock", text |-> text, test |-> FALSE, uid |-> uid]
Condition(text, uid) ==
  [kind |-> "Condition", text |-> text, test |-> FALSE, uid |-> uid]
Loop(text, uid) ==
  [kind |-> "Loop", text |-> text, test |-> FALSE, uid |-> uid]

(***************************************************************************)
(* petgraph::graph::Graph.                                                 *)
(***************************************************************************)
\* panic: an add_edge was given a node index that is out of bounds
EmptyGraph == [nodes |-> <<>>, edges |-> <<>>, clock |-> 0, panic |-> FALSE]

node_count(g) == Len(g.nodes)
node_indices(g) == 0 .. (Len(g.nodes) - 1)
edge_indices(g) == 0 .. (Len(g.edges) - 1)

\* node_weight(a): Some(weight) iff a is in bounds
has_node(g, a) == a \in node_indices(g)
node_weight(g, a) == g.nodes[a + 1]
edge_at(g, e) == g.edges[e + 1]

\* Graph::add_node: push; the new index is the old length
graph_add_node(g, w) ==
  IF g.panic THEN g ELSE [g EXCEPT !.nodes = Append(@, w)]

\* Graph::add_edge: push; the edge becomes the head of the source's outgoing
\* list and of the target's incoming list (stamp orders the lists); it
\* panics ("Graph::add_edge: node indices out of bounds") on a missing node
graph_add_edge(g, a, b, weight) ==
  IF g.panic THEN g
  ELSE IF ~(has_node(g, a) /\ has_node(g, b)) THEN [g EXCEPT !.panic = TRUE]
  ELSE [g EXCEPT !.edges = Append(@, [source |-> a, target |-> b,
                                      weight |-> weight, stamp |-> g.clock]),
                 !.clock = @ + 1]

\* Vec::swap_remove at 0-based position i
swap_remove(s, i) ==
  LET n == Len(s) IN
  IF i + 1 = n THEN SubSeq(s, 1, n - 1)
  ELSE [j \in 1 .. (n - 1) |-> IF j = i + 1 THEN s[n] ELSE s[j]]

\* edges_directed(a, Outgoing) / (a, Incoming) as sets of edge indices
out_edges_of(g, a) == {e \in edge_indices(g) : edge_at(g, e).source = a}
in_edges_of(g, a) == {e \in edge_indices(g) : edge_at(g, e).target = a}

\* the head of an adjacency list: the edge added last
list_head(g, es) ==
  CHOOSE e \in es : \A f \in es : edge_at(g, f).stamp <= edge_at(g, e).stamp

\* an adjacency list in iteration order (most recently added edge first)
RECURSIVE list_order(_, _)
list_order(g, es) ==
  IF es = {} THEN <<>>
  ELSE LET h == list_head(g, es) IN <<h>> \o list_order(g, es \ {h})

\* Graph::remove_edge: unlink, then swap_remove in the edge vector
graph_remove_edge(g, e) == [g EXCEPT !.edges = swap_remove(@, e)]

\* remove_node, first part: remove every edge of the outgoing list, head
\* first, then every edge of the incoming list
RECURSIVE remove_edges_of(_, _)
remove_edges_of(g, a) ==
  IF out_edges_of(g, a) # {}
    THEN remove_edges_of(graph_remove_edge(g, list_head(g, out_edges_of(g, a))), a)
  ELSE IF in_edges_of(g, a) # {}
    THEN remove_edges_of(graph_remove_edge(g, list_head(g, in_edges_of(g, a))), a)
  ELSE g

\* Graph::remove_node: None when a is out of bounds; otherwise the node's
\* edges go, the node vector is swap_removed, and the node that sat at the
\* last index now sits at a: its edges are renumbered from old_index to a
graph_remove_node(g, a) ==
  IF g.panic \/ ~has_node(g, a) THEN g
  ELSE LET g1 == remove_edges_of(g, a)
           old_index == Len(g1.nodes) - 1
           renum(x) == IF x = old_index THEN a ELSE x
       IN [g1 EXCEPT
             !.nodes = swap_remove(@, a),
             !.edges = [j \in 1 .. Len(@) |->
                          [@[j] EXCEPT !.source = renum(@),
                                       !.target = renum(@)]]]

(***************************************************************************)
(* FlowGraph: the merge pass (flow_graph.rs 68-262).                       *)
(***************************************************************************)
None == -1

in_degree(g, n) == Cardinality(in_edges_of(g, n))
out_degree(g, n) == Cardinality(out_edges_of(g, n))

is_valid_neighbor(g, node_id) ==
  /\ has_node(g, node_id)
  /\ node_weight(g, node_id).kind \notin {"Start", "End"}

\* variant that looks at the degrees only and not at the neighbours' kinds
is_mergeable_block_by_degree(g, node_id) ==
  /\ has_node(g, node_id)
  /\ node_weight(g, node_id).kind = "BasicBlock"
  /\ in_degree(g, node_id) = 1
  /\ out_degree(g, node_id) = 1

is_mergeable_block(g, node_id) ==
  /\ has_node(g, node_id)
  /\ node_weight(g, node_id).kind = "BasicBlock"
  /\ in_degree(g, node_id) = 1
  /\ out_degree(g, node_id) = 1
  /\ \A e \in in_edges_of(g, node_id) : is_valid_neighbor(g, edge_at(g, e).source)
  /\ \A e \in out_edges_of(g, node_id) : is_valid_neighbor(g, edge_at(g, e).target)

\* the one neighbour of the outgoing list, None when the list holds no edge
\* or more than one
get_single_successor(g, node_id) ==
  LET es == out_edges_of(g, node_id) IN
  IF Cardinality(es) = 1 THEN edge_at(g, CHOOSE e \in es : TRUE).target
  ELSE None

validate_merge_sequence(g, seq) ==
  /\ \A i \in 1 .. Len(seq) :
       /\ has_node(g, seq[i])
       /\ node_weight(g, seq[i]).kind = "BasicBlock"
  /\ \A i \in 1 .. (Len(seq) - 1) :
       \E e \in out_edges_of(g, seq[i]) : edge_at(g, e).target = seq[i + 1]

\* (source, target, weight) of the edges of a list, in iteration order
edge_triples(g, order) ==
  [i \in 1 .. Len(order) |->
     [source |-> edge_at(g, order[i]).source,
      target |-> edge_at(g, order[i]).target,
      weight |-> edge_at(g, order[i]).weight]]

RECURSIVE collect_in_edges(_, _)
collect_in_edges(g, members) ==
  IF members = <<>> THEN <<>>
  ELSE edge_triples(g, list_order(g, in_edges_of(g, Head(members))))
       \o collect_in_edges(g, Tail(members))

RECURSIVE collect_out_edges(_, _)
collect_out_edges(g, members) ==
  IF members = <<>> THEN <<>>
  ELSE edge_triples(g, list_order(g, out_edges_of(g, Head(members))))
       \o collect_out_edges(g, Tail(members))

\* the loop of flow_graph.rs 230-238
RECURSIVE merge_content(_, _, _)
merge_content(g, members, merged_content) ==
  IF members = <<>> THEN merged_content
  ELSE LET w == node_weight(g, Head(members))
           next_content ==
             IF w.kind = "BasicBlock"
               THEN (IF merged_content # <<>> THEN merged_content \o <<NL>>
                     ELSE merged_content) \o w.text
             ELSE merged_content
       IN merge_content(g, Tail(members), next_content)

RECURSIVE remove_nodes(_, _)
remove_nodes(g, members) ==
  IF members = <<>> THEN g
  ELSE remove_nodes(graph_remove_node(g, Head(members)), Tail(members))

RECURSIVE readd_in_edges(_, _, _)
readd_in_edges(g, triples, first) ==
  IF triples = <<>> THEN g
  ELSE LET t == Head(triples)
           g1 == IF t.source # first /\ has_node(g, t.source)
                   THEN graph_add_edge(g, t.source, first, t.weight)
                 ELSE g
       IN readd_in_edges(g1, Tail(triples), first)

RECURSIVE readd_out_edges(_, _, _, _)
readd_out_edges(g, triples, first, last) ==
  IF triples = <<>> THEN g
  ELSE LET t == Head(triples)
           g1 == IF t.target # last /\ has_node(g, t.target)
                   THEN graph_add_edge(g, first, t.target, t.weight)
                 ELSE g
       IN readd_out_edges(g1, Tail(triples), first, last)

merge_sequence(g, seq) ==
  IF seq = <<>> THEN g
  ELSE
    LET first == seq[1]
        last == seq[Len(seq)]
        in_edges == collect_in_edges(g, Tail(seq))
        out_edges == collect_out_edges(g, SubSeq(seq, 1, Len(seq) - 1))
        merged_content == merge_content(g, seq, <<>>)
        g1 == [g EXCEPT !.nodes[first + 1] =
                 BasicBlock(merged_content, node_weight(g, first).uid)]
        g2 == remove_nodes(g1, Tail(seq))
        g3 == readd_in_edges(g2, in_edges, first)
    IN readd_out_edges(g3, out_edges, first, last)

(***************************************************************************)
(* FlowGraph: visibility (flow_graph.rs 264-320).                          *)
(***************************************************************************)
\* the targets of an adjacency list, in iteration order
targets_of(g, order) == [i \in 1 .. Len(order) |-> edge_at(g, order[i]).target]

\* the same loop, giving the nodes in the order in which nodes.insert(node_id)
\* returned true, that is, in which their edges were walked
RECURSIVE function_nodes_visits(_, _, _)
function_nodes_visits(g, stack, visits) ==
  IF stack = <<>> THEN visits
  ELSE LET node_id == stack[Len(stack)]
           rest == SubSeq(stack, 1, Len(stack) - 1)
       IN IF \A i \in 1 .. Len(visits) : visits[i] # node_id
            THEN function_nodes_visits(
                   g,
                   rest \o targets_of(g, list_order(g, out_edges_of(g, node_id))),
                   Append(visits, node_id))
          ELSE function_nodes_visits(g, rest, visits)

\* variant of the loop that drops the rest of the stack when it pushes
RECURSIVE function_nodes_loop_drop_rest(_, _, _)
function_nodes_loop_drop_rest(g, stack, nodes) ==
  IF stack = <<>> THEN nodes
  ELSE LET node_id == stack[Len(stack)]
       IN IF node_id \notin nodes
            THEN function_nodes_loop_drop_rest(
                   g,
                   targets_of(g, list_order(g, out_edges_of(g, node_id))),
                   nodes \cup {node_id})
          ELSE function_nodes_loop_drop_rest(
                 g, SubSeq(stack, 1, Len(stack) - 1), nodes)

\* the loop of get_function_nodes: pop the stack's end, insert, push targets
RECURSIVE function_nodes_loop(_, _, _)
function_nodes_loop(g, stack, nodes) ==
  IF stack = <<>> THEN nodes
  ELSE LET node_id == stack[Len(stack)]
           rest == SubSeq(stack, 1, Len(stack) - 1)
       IN IF node_id \notin nodes
            THEN function_nodes_loop(
                   g,
                   rest \o targets_of(g, list_order(g, out_edges_of(g, node_id))),
                   nodes \cup {node_id})
          ELSE function_nodes_loop(g, rest, nodes)

\* get_function_nodes that stops at the start node's direct successors
get_function_nodes_one_step(g, start_node) ==
  {start_node} \cup {edge_at(g, e).target : e \in out_edges_of(g, start_node)}

get_function_nodes(g, start_node) == function_nodes_loop(g, <<start_node>>, {})

is_function_start(g, node_id) ==
  has_node(g, node_id) /\ node_weight(g, node_id).kind = "Start"

test_function_nodes(g) ==
  UNION {get_function_nodes(g, id) :
           id \in {n \in node_indices(g) :
                     /\ node_weight(g, n).kind = "Start"
                     /\ node_weight(g, n).test}}

\* get_visible_nodes that does not read include_tests
get_visible_nodes_always_hide(g, cfg) ==
  {id \in node_indices(g) : id \notin test_function_nodes(g)}

get_visible_nodes(g, cfg) ==
  {id \in node_indices(g) :
     cfg.include_tests \/ id \notin test_function_nodes(g)}

\* FlowGraph::nodes: the node indices in node order, filtered
RECURSIVE filter_indices(_, _, _)
filter_indices(n, i, keep) ==
  IF i >= n THEN <<>>
  ELSE (IF i \in keep THEN <<i>> ELSE <<>>) \o filter_indices(n, i + 1, keep)

nodes(g, cfg) == filter_indices(node_count(g), 0, get_visible_nodes(g, cfg))

\* edges that tests the source of an edge only
edges_source_only(g, cfg) ==
  LET visible_nodes == get_visible_nodes(g, cfg)
      keep == {e \in edge_indices(g) : edge_at(g, e).source \in visible_nodes}
  IN edge_triples(g, filter_indices(Len(g.edges), 0, keep))

\* FlowGraph::edges: (source, target, weight) in edge order, filtered
edges(g, cfg) ==
  LET visible_nodes == get_visible_nodes(g, cfg)
      keep == {e \in edge_indices(g) :
                 /\ edge_at(g, e).source \in visible_nodes
                 /\ edge_at(g, e).target \in visible_nodes}
  IN edge_triples(g, filter_indices(Len(g.edges), 0, keep))

(***************************************************************************)
(* FlowGraph::add_node / add_edge (flow_graph.rs 52-59).                   *)
(***************************************************************************)
add_node(g, node_type) == graph_add_node(g, node_type)
add_edge(g, from, to, label) == graph_add_edge(g, from, to, label)

(***************************************************************************)
(* Statement trees (syn::Stmt / syn::Expr as the analyzer reads them).     *)
(*   [k |-> "expr",  text]               Stmt::Expr, no control flow       *)
(*   [k |-> "local", text]               any other Stmt (let, item, macro) *)
(*   [k |-> "if", cond, then, els]       els: "none" | "block" | "if"      *)
(*   [k |-> "while", cond, body]                                           *)
(*   [k |-> "loop", body]                                                  *)
(*   [k |-> "for", pat, iter, body]                                        *)
(*   [k |-> "match", scrut, arms]        arm: [pat, body: "block"|"expr"]  *)
(* The i-th statement of a block, when it is a plain one, reads LeafAt(i). *)
(***************************************************************************)
LeafTexts == <<"a", "b", "c", "d", "e", "f">>

LeafAt(i) ==
  [k |-> IF i % 2 = 0 THEN "local" ELSE "expr", text |-> LeafTexts[i]]

NoElse == [k |-> "none"]
ElseBlock(b) == [k |-> "block", body |-> b]
ElseIf(s) == [k |-> "if", stmt |-> s]
ArmBlock(b) == [k |-> "block", body |-> b]
ArmExpr(t) == [k |-> "expr", text |-> t]

IfStmt(t, e) == [k |-> "if", cond |-> "c", then |-> t, els |-> e]
WhileStmt(b) == [k |-> "while", cond |-> "w", body |-> b]
LoopStmt(b) == [k |-> "loop", body |-> b]
ForStmt(b) == [k |-> "for", pat |-> "i", iter |-> "xs", body |-> b]
MatchStmt(arms) == [k |-> "match", scrut |-> "v", arms |-> arms]

\* the number of nodes the analyzer creates for a statement / a block
RECURSIVE StmtSize(_), BlockSize(_), ArmsSize(_)
StmtSize(s) ==
  CASE s.k \in {"expr", "local"} -> 1
    [] s.k = "if" ->
         2 + BlockSize(s.then)
           + (CASE s.els.k = "none" -> 0
                [] s.els.k = "block" -> BlockSize(s.els.body)
                [] s.els.k = "if" -> StmtSize(s.els.stmt))
    [] s.k = "while" -> 3 + BlockSize(s.body)
    [] s.k \in {"loop", "for"} -> 2 + BlockSize(s.body)
    [] s.k = "match" -> 2 + ArmsSize(s.arms)
BlockSize(b) == IF b = <<>> THEN 0 ELSE StmtSize(Head(b)) + BlockSize(Tail(b))
ArmsSize(arms) ==
  IF arms = <<>> THEN 0
  ELSE 1 + (IF Head(arms).body.k = "expr" THEN 1
            ELSE BlockSize(Head(arms).body.body))
         + ArmsSize(Tail(arms))

\* The statement trees given to the builder, by the number of nodes they
\* make: blocks of at most MaxBlock statements, matches of at most MaxArms
\* arms.
\*   BlocksExactFrom(i, m)  the blocks of m nodes made of the i-th and later
\*                          statements of a block
\*   StmtsExact(i, x)       the i-th statements of x nodes
\*   IfsExact(x)            the conditionals of x nodes
\*   ElsesExact(y)          the else branches of y nodes
\*   ArmsExactFrom(j, m)    the arm lists of m nodes, from the j-th arm on
RECURSIVE BlocksExactFrom(_, _), StmtsExact(_, _), IfsExact(_), ElsesExact(_),
          ArmsExactFrom(_, _)
BlocksExactFrom(i, m) ==
  IF m = 0 THEN {<<>>}
  ELSE IF i > MaxBlock THEN {}
  ELSE UNION {{<<s>> \o r : s \in StmtsExact(i, x),
                            r \in BlocksExactFrom(i + 1, m - x)} :
                x \in 1 .. m}
StmtsExact(i, x) ==
  IF x = 1 THEN {LeafAt(i)}
  ELSE IfsExact(x)
       \cup (IF x >= 3 THEN {WhileStmt(b) : b \in BlocksExactFrom(1, x - 3)}
             ELSE {})
       \cup UNION {{LoopStmt(b), ForStmt(b)} : b \in BlocksExactFrom(1, x - 2)}
       \cup {MatchStmt(arms) : arms \in ArmsExactFrom(1, x - 2)}
IfsExact(x) ==
  IF x < 2 THEN {}
  ELSE UNION {{IfStmt(t, e) : t \in BlocksExactFrom(1, y),
                              e \in ElsesExact(x - 2 - y)} :
                y \in 0 .. (x - 2)}
ElsesExact(y) ==
  (IF y = 0 THEN {NoElse} ELSE {})
  \cup {ElseBlock(b) : b \in BlocksExactFrom(1, y)}
  \cup {ElseIf(s) : s \in IfsExact(y)}
ArmsExactFrom(j, m) ==
  IF m = 0 THEN {<<>>}
  ELSE IF j > MaxArms THEN {}
  ELSE UNION {{<<[pat |-> "p", body |-> ab]>> \o r :
                 ab \in (IF x = 2 THEN {ArmExpr("x")} ELSE {})
                        \cup {ArmBlock(b) : b \in BlocksExactFrom(1, x - 1)},
                 r \in ArmsExactFrom(j + 1, m - x)} :
                x \in 1 .. m}

\* the bodies of the functions given to the builder that make n nodes
BodiesOfSize(n) == BlocksExactFrom(1, n)

FnNames == <<"f1", "f2", "f3", "f4", "f5", "f6">>

(***************************************************************************)
(* ControlFlowAnalyzerPass (analyzer.rs).  The walk threads                *)
(* b = [g, log, last]: the graph, the history of created constructs and    *)
(* the node the walked part ends in.                                       *)
(***************************************************************************)
EmptyLog == [fns |-> <<>>, ifs |-> <<>>, whiles |-> <<>>, loops |-> <<>>,
             matches |-> <<>>, leaves |-> <<>>]

\* format!("{}", quote!(..)) of the analyzer, as token sequences
cond_text(s) == <<"if", s.cond, ". cond">>
while_text(s) == <<"while", s.cond, ". cond">>
match_text(s) == <<"match ", "match", s.scrut, ". expr">>
arm_text(arm) == <<"case: ", arm.pat, ". pat">>
for_text(s) == <<"for ", "for", s.pat, ". pat", " in ", "for", s.iter, ". expr">>

RECURSIVE analyze_block(_, _, _), analyze_stmt(_, _, _), analyze_if(_, _, _),
          analyze_while(_, _, _), analyze_loop(_, _, _), analyze_for(_, _, _),
          analyze_match(_, _, _), analyze_arms(_, _, _, _, _)

\* analyze_plain that makes no node for a statement that is not an expression
analyze_plain_skip_local(b, s, last_node) ==
  IF s.k = "local" THEN [b EXCEPT !.last = last_node]
  ELSE
    LET basic_block == node_count(b.g)
        g1 == add_node(b.g, BasicBlock(<<s.text>>, basic_block))
        g2 == add_edge(g1, last_node, basic_block, "next")
    IN [g |-> g2,
        log |-> [b.log EXCEPT !.leaves =
                   Append(@, [parent |-> last_node, node |-> basic_block,
                              text |-> <<s.text>>])],
        last |-> basic_block]

\* analyzer.rs 61-68 and 71-78: any other statement becomes one BasicBlock
analyze_plain(b, s, last_node) ==
  LET basic_block == node_count(b.g)
      g1 == add_node(b.g, BasicBlock(<<s.text>>, basic_block))
      g2 == add_edge(g1, last_node, basic_block, "next")
  IN [g |-> g2,
      log |-> [b.log EXCEPT !.leaves =
                 Append(@, [parent |-> last_node, node |-> basic_block,
                            text |-> <<s.text>>])],
      last |-> basic_block]

\* analyzer.rs 43-79: one iteration of the loop over block.stmts
analyze_stmt(b, s, last_node) ==
  CASE s.k = "if" -> analyze_if(b, s, last_node)
    [] s.k = "while" -> analyze_while(b, s, last_node)
    [] s.k = "loop" -> analyze_loop(b, s, last_node)
    [] s.k = "for" -> analyze_for(b, s, last_node)
    [] s.k = "match" -> analyze_match(b, s, last_node)
    [] OTHER -> analyze_plain(b, s, last_node)

\* analyzer.rs 40-82, with analyze_block_rest for the later iterations: b1
\* is the builder after the first statement
analyze_block_rest(b1, stmts) == analyze_block(b1, Tail(stmts), b1.last)

analyze_block(b, stmts, parent) ==
  IF stmts = <<>> THEN [b EXCEPT !.last = parent]
  ELSE analyze_block_rest(analyze_stmt(b, Head(stmts), parent), stmts)

\* analyzer.rs 103-110: be is the builder after the else branch (after the
\* merge node when there is none)
analyze_if_merge(be, expr_if, parent, cond_node, then_node, merge_node) ==
  LET else_node == be.last
      g6 == IF expr_if.els.k # "none"
              THEN add_edge(add_edge(be.g, cond_node, else_node, "false"),
                            else_node, merge_node, "done")
            ELSE add_edge(be.g, cond_node, merge_node, "false")
      g7 == add_edge(g6, then_node, merge_node, "done")
  IN [g |-> g7,
      log |-> [be.log EXCEPT !.ifs =
                 Append(@, [parent |-> parent, cond_node |-> cond_node,
                            then_len |-> BlockSize(expr_if.then),
                            then_node |-> then_node, merge_node |-> merge_node,
                            els |-> expr_if.els.k,
                            else_node |-> IF expr_if.els.k = "none" THEN None
                                          ELSE else_node,
                            end |-> node_count(be.g)])],
      last |-> merge_node]

\* analyzer.rs 92-102: bt is the builder after the then branch
analyze_if_else(bt, expr_if, parent, cond_node) ==
  LET then_node == bt.last
      g3 == add_edge(bt.g, cond_node, then_node, "true")
      merge_node == node_count(g3)
      g4 == add_node(g3, BasicBlock(<<"merge-point">>, merge_node))
  IN analyze_if_merge(
       CASE expr_if.els.k = "block" ->
              analyze_block([bt EXCEPT !.g = g4], expr_if.els.body, cond_node)
         [] expr_if.els.k = "if" ->
              analyze_if([bt EXCEPT !.g = g4], expr_if.els.stmt, cond_node)
         [] OTHER -> [bt EXCEPT !.g = g4],
       expr_if, parent, cond_node, then_node, merge_node)

analyze_if(b, expr_if, parent) ==
  LET cond_node == node_count(b.g)
      g1 == add_node(b.g, Condition(cond_text(expr_if), cond_node))
      g2 == add_edge(g1, parent, cond_node, "enter-test")
  IN analyze_if_else(analyze_block([b EXCEPT !.g = g2], expr_if.then, cond_node),
                     expr_if, parent, cond_node)

\* analyze_while_exit whose back edge ends at the condition
analyze_while_exit_back_to_cond(bb, expr_while, parent, loop_entry, cond_node) ==
  LET body_node == bb.last
      g5 == add_edge(bb.g, cond_node, body_node, "true")
      g6 == add_edge(g5, body_node, cond_node, "continue")
      exit_node == node_count(g6)
      g7 == add_node(g6, BasicBlock(<<"loop-exit">>, exit_node))
      g8 == add_edge(g7, cond_node, exit_node, "false")
  IN [g |-> g8,
      log |-> [bb.log EXCEPT !.whiles =
                 Append(@, [parent |-> parent, loop_entry |-> loop_entry,
                            cond_node |-> cond_node,
                            body_len |-> BlockSize(expr_while.body),
                            body_node |-> body_node, exit_node |-> exit_node])],
      last |-> exit_node]

\* analyzer.rs 124-134: bb is the builder after the loop body
analyze_while_exit(bb, expr_while, parent, loop_entry, cond_node) ==
  LET body_node == bb.last
      g5 == add_edge(bb.g, cond_node, body_node, "true")
      g6 == add_edge(g5, body_node, loop_entry, "continue")
      exit_node == node_count(g6)
      g7 == add_node(g6, BasicBlock(<<"loop-exit">>, exit_node))
      g8 == add_edge(g7, cond_node, exit_node, "false")
  IN [g |-> g8,
      log |-> [bb.log EXCEPT !.whiles =
                 Append(@, [parent |-> parent, loop_entry |-> loop_entry,
                            cond_node |-> cond_node,
                            body_len |-> BlockSize(expr_while.body),
                            body_node |-> body_node, exit_node |-> exit_node])],
      last |-> exit_node]

analyze_while(b, expr_while, parent) ==
  LET loop_entry == node_count(b.g)
      g1 == add_node(b.g, BasicBlock(<<"loop-entry">>, loop_entry))
      g2 == add_edge(g1, parent, loop_entry, "enter-loop")
      cond_node == node_count(g2)
      g3 == add_node(g2, Condition(while_text(expr_while), cond_node))
      g4 == add_edge(g3, loop_entry, cond_node, "check")
  IN analyze_while_exit(
       analyze_block([b EXCEPT !.g = g4], expr_while.body, cond_node),
       expr_while, parent, loop_entry, cond_node)

\* analyzer.rs 145-152 and 196-201: bb is the builder after the loop body;
\* k and label tell loop ("break") from for ("exhausted")
analyze_loop_exit(bb, expr_loop, parent, loop_entry, k, label) ==
  LET body_node == bb.last
      g3 == add_edge(bb.g, body_node, loop_entry, "continue")
      exit_node == node_count(g3)
      g4 == add_node(g3, BasicBlock(<<"loop-exit">>, exit_node))
      g5 == add_edge(g4, loop_entry, exit_node, label)
  IN [g |-> g5,
      log |-> [bb.log EXCEPT !.loops =
                 Append(@, [k |-> k, parent |-> parent,
                            header |-> loop_entry,
                            body_len |-> BlockSize(expr_loop.body),
                            body_node |-> body_node, exit_node |-> exit_node])],
      last |-> exit_node]

analyze_loop(b, expr_loop, parent) ==
  LET loop_entry == node_count(b.g)
      g1 == add_node(b.g, Loop(<<"unconditional">>, loop_entry))
      g2 == add_edge(g1, parent, loop_entry, "enter-loop")
  IN analyze_loop_exit(
       analyze_block([b EXCEPT !.g = g2], expr_loop.body, loop_entry),
       expr_loop, parent, loop_entry, "loop", "break")

analyze_for(b, expr_for, parent) ==
  LET loop_node == node_count(b.g)
      g1 == add_node(b.g, Loop(for_text(expr_for), loop_node))
      g2 == add_edge(g1, parent, loop_node, "enter-loop")
  IN analyze_loop_exit(
       analyze_block([b EXCEPT !.g = g2], expr_for.body, loop_node),
       expr_for, parent, loop_node, "for", "exhausted")

\* analyzer.rs 178-179: bb is the builder after the body of the first arm of
\* arms; the later arms follow.  done carries the log entries of the arms
\* walked so far
analyze_arms_next(bb, arms, match_node, merge_node, done, arm_node) ==
  analyze_arms([bb EXCEPT !.g = add_edge(bb.g, bb.last, merge_node, "next")],
               Tail(arms), match_node, merge_node,
               Append(done, [arm_node |-> arm_node, body_node |-> bb.last]))

\* analyzer.rs 163-177: the loop over expr_match.arms
analyze_arms(b, arms, match_node, merge_node, done) ==
  IF arms = <<>> THEN [b EXCEPT !.last = done]
  ELSE
    LET arm == Head(arms)
        arm_node == node_count(b.g)
        g1 == add_node(b.g, BasicBlock(arm_text(arm), arm_node))
        g2 == add_edge(g1, match_node, arm_node, "case")
        node == node_count(g2)
        g3 == add_node(g2, BasicBlock(<<arm.body.text>>, node))
    IN analyze_arms_next(
         IF arm.body.k = "block"
           THEN analyze_block([b EXCEPT !.g = g2], arm.body.body, arm_node)
         ELSE [b EXCEPT !.g = add_edge(g3, arm_node, node, "next"),
                        !.last = node],
         arms, match_node, merge_node, done, arm_node)

\* analyzer.rs 182: ba is the builder after the arms, its last their log
analyze_match_end(ba, expr_match, parent, match_node, merge_node) ==
  [g |-> ba.g,
   log |-> [ba.log EXCEPT !.matches =
              Append(@, [parent |-> parent, match_node |-> match_node,
                         merge_node |-> merge_node, arms |-> ba.last,
                         declared |-> expr_match.arms,
                         end |-> node_count(ba.g)])],
   last |-> merge_node]

analyze_match(b, expr_match, parent) ==
  LET match_node == node_count(b.g)
      g1 == add_node(b.g, Condition(match_text(expr_match), match_node))
      g2 == add_edge(g1, parent, match_node, "next")
      merge_node == node_count(g2)
      g3 == add_node(g2, BasicBlock(<<"after_match">>, merge_node))
  IN analyze_match_end(
       analyze_arms([b EXCEPT !.g = g3], expr_match.arms, match_node,
                    merge_node, <<>>),
       expr_match, parent, match_node, merge_node)

\* analyze_function_return that writes no "return" edge for an empty body
analyze_function_no_return(bb, func, start_node, end_node) ==
  LET last_node == bb.last
      g3 == IF last_node = start_node THEN bb.g
            ELSE add_edge(bb.g, last_node, end_node, "return")
  IN [g |-> g3,
      log |-> [bb.log EXCEPT !.fns =
                 Append(@, [name |-> func.name, is_test |-> func.is_test,
                            body |-> func.body, body_len |-> BlockSize(func.body),
                            start_node |-> start_node, end_node |-> end_node,
                            last_node |-> last_node, end |-> node_count(bb.g)])]]

\* analyzer.rs 35-36: bb is the builder after the function's block
analyze_function_return(bb, func, start_node, end_node) ==
  LET last_node == bb.last
      g3 == add_edge(bb.g, last_node, end_node, "return")
  IN [g |-> g3,
      log |-> [bb.log EXCEPT !.fns =
                 Append(@, [name |-> func.name, is_test |-> func.is_test,
                            body |-> func.body, body_len |-> BlockSize(func.body),
                            start_node |-> start_node, end_node |-> end_node,
                            last_node |-> last_node, end |-> node_count(bb.g)])]]

\* analyze_function that walks the block from the End node
analyze_function_from_end(g, lg, func) ==
  LET start_node == node_count(g)
      g1 == add_node(g, Start(func.name, func.is_test, start_node))
      end_node == node_count(g1)
      g2 == add_node(g1, End(func.name, func.is_test, end_node))
  IN analyze_function_return(
       analyze_block([g |-> g2, log |-> lg, last |-> end_node],
                     func.body, end_node),
       func, start_node, end_node)

\* analyze_function.  The Start / End weights carry the is_test flag that
\* ParserPass::get_function_info (parser.rs 20-24) computes for the function
analyze_function(g, lg, func) ==
  LET start_node == node_count(g)
      g1 == add_node(g, Start(func.name, func.is_test, start_node))
      end_node == node_count(g1)
      g2 == add_node(g1, End(func.name, func.is_test, end_node))
  IN analyze_function_return(
       analyze_block([g |-> g2, log |-> lg, last |-> start_node],
                     func.body, start_node),
       func, start_node, end_node)

(***************************************************************************)
(* The pipeline.                                                           *)
(*   pc = "build"    GraphBuilderPass::build_with_config is analysing the  *)
(*                   functions; the graph may be handed to to_dot          *)
(*   pc = "loop"     merge_basic_blocks, at the head of  while let Some(.. *)
(*   pc = "collect"  collect_mergeable_sequence, at the head of its loop   *)
(*   pc = "commit"   merge_basic_blocks, at  if sequence.len() > 1         *)
(*   pc = "done"     merge_basic_blocks has returned                       *)
(*   pc = "diverged" collect_mergeable_sequence came back to a node of the *)
(*                   sequence it is growing: its loop never ends           *)
(*   pc = "panic"    an add_edge of merge_sequence panicked                *)
(***************************************************************************)
Range(s) == {s[i] : i \in 1 .. Len(s)}

\* the parts of the program that are not running
label_idle == raw_label = <<>> /\ emitted = <<>>
crate_idle ==
  /\ rust_files = <<>>
  /\ module_files = {}
  /\ renderer = ""
  /\ graphs = <<>>
  /\ dot_content = <<>>
  /\ warnings = <<>>
lib_idle == syntax = <<>> /\ lib_graph = EmptyGraph /\ result = <<>>
pipeline_idle ==
  /\ graph = EmptyGraph
  /\ config = [include_tests |-> FALSE]
  /\ log = EmptyLog
  /\ pass = 0
  /\ merged = {}
  /\ to_merge = <<>>
  /\ function_starts = {}
  /\ sequence = <<>>
  /\ before = EmptyGraph
  /\ after1 = EmptyGraph
  /\ commits = <<>>

Init ==
  /\ graph = EmptyGraph
  /\ config \in {[include_tests |-> t] : t \in BOOLEAN}
  /\ log = EmptyLog
  /\ pc = "build"
  /\ pass = 0
  /\ merged = {}
  /\ to_merge = <<>>
  /\ function_starts = {}
  /\ sequence = <<>>
  /\ before = EmptyGraph
  /\ after1 = EmptyGraph
  /\ commits = <<>>
  /\ label_idle
  /\ crate_idle
  /\ lib_idle

\* builder.rs 36-38: one iteration of  for func in functions
AnalyzeFunction ==
  /\ pc = "build"
  /\ node_count(graph) + 2 <= MaxNodes
  /\ \E n \in 0 .. (MaxNodes - 2 - node_count(graph)) :
       \E body \in BodiesOfSize(n), is_test \in BOOLEAN :
         LET func == [name |-> FnNames[Len(log.fns) + 1], is_test |-> is_test,
                      body |-> body]
             r == analyze_function(graph, log, func)
         IN /\ graph' = r.g
            /\ log' = r.log
  /\ UNCHANGED <<config, pc, pass, merged, to_merge, function_starts,
                 sequence, before, after1, commits>>
  /\ UNCHANGED tool_vars

\* FlowGraph::set_config
SetConfig ==
  /\ pc = "build"
  /\ graph = EmptyGraph
  /\ config' = [include_tests |-> ~config.include_tests]
  /\ UNCHANGED <<graph, log, pc, pass, merged, to_merge, function_starts,
                 sequence, before, after1, commits>>
  /\ UNCHANGED tool_vars

\* the candidates of flow_graph.rs 81-87, in node_indices order
RECURSIVE collect_candidates(_, _, _, _)
collect_candidates(g, i, mrg, starts) ==
  IF i >= node_count(g) THEN <<>>
  ELSE (IF i \notin mrg /\ i \notin starts /\ is_mergeable_block(g, i)
          THEN <<i>> ELSE <<>>)
       \o collect_candidates(g, i + 1, mrg, starts)

\* flow_graph.rs 69-87: the sets and the queue of merge_basic_blocks
begin_merge ==
  /\ merged' = {}
  /\ function_starts' =
       {n \in node_indices(graph) : node_weight(graph, n).kind = "Start"}
  /\ to_merge' =
       collect_candidates(
         graph, 0, {},
         {n \in node_indices(graph) : node_weight(graph, n).kind = "Start"})
  /\ sequence' = <<>>
  /\ pc' = "loop"

\* to_dot: merge_basic_blocks is entered on the built graph
MergeBegin ==
  /\ pc = "build"
  /\ begin_merge
  /\ pass' = 1
  /\ before' = graph
  /\ UNCHANGED <<graph, config, log, after1, commits>>
  /\ UNCHANGED tool_vars

\* merge_basic_blocks is entered again, on its own result
MergeAgain ==
  /\ pc = "done"
  /\ pass = 1
  /\ begin_merge
  /\ pass' = 2
  /\ UNCHANGED <<graph, config, log, before, after1, commits>>
  /\ UNCHANGED tool_vars

\* flow_graph.rs 89-92: pop_front gives a node of merged
PopSkip ==
  /\ pc = "loop"
  /\ to_merge # <<>>
  /\ Head(to_merge) \in merged
  /\ to_merge' = Tail(to_merge)
  /\ UNCHANGED <<graph, config, log, pc, pass, merged, function_starts,
                 sequence, before, after1, commits>>
  /\ UNCHANGED tool_vars

\* flow_graph.rs 89-95 and 141-144: pop_front gives start_node
PopStart ==
  /\ pc = "loop"
  /\ to_merge # <<>>
  /\ Head(to_merge) \notin merged
  /\ to_merge' = Tail(to_merge)
  /\ sequence' = <<Head(to_merge)>>
  /\ pc' = "collect"
  /\ UNCHANGED <<graph, config, log, pass, merged, function_starts,
                 before, after1, commits>>
  /\ UNCHANGED tool_vars

\* flow_graph.rs 146-154: one test of  while let Some(next)
CollectStep ==
  /\ pc = "collect"
  /\ LET current == sequence[Len(sequence)]
         next == get_single_successor(graph, current)
     IN IF \/ next = None
           \/ next \in merged
           \/ next \in function_starts
           \/ ~is_mergeable_block(graph, next)
          THEN pc' = "commit" /\ sequence' = sequence
        ELSE IF next \in Range(sequence)
          THEN pc' = "diverged" /\ sequence' = sequence
        ELSE pc' = "collect" /\ sequence' = Append(sequence, next)
  /\ UNCHANGED <<graph, config, log, pass, merged, to_merge, function_starts,
                 before, after1, commits>>
  /\ UNCHANGED tool_vars

\* flow_graph.rs 97-103
Commit ==
  /\ pc = "commit"
  /\ IF Len(sequence) > 1 /\ validate_merge_sequence(graph, sequence)
       THEN /\ graph' = merge_sequence(graph, sequence)
            /\ merged' = merged \cup Range(sequence)
            /\ commits' = Append(commits,
                            [seq |-> sequence, pre |-> graph,
                             post |-> merge_sequence(graph, sequence),
                             pass |-> pass])
     ELSE UNCHANGED <<graph, merged, commits>>
  /\ pc' = IF graph'.panic THEN "panic" ELSE "loop"
  /\ UNCHANGED <<config, log, pass, to_merge, function_starts, sequence,
                 before, after1>>
  /\ UNCHANGED tool_vars

\* flow_graph.rs 89: pop_front gives None, merge_basic_blocks returns
MergeEnd ==
  /\ pc = "loop"
  /\ to_merge = <<>>
  /\ pc' = "done"
  /\ after1' = IF pass = 1 THEN graph ELSE after1
  /\ UNCHANGED <<graph, config, log, pass, merged, to_merge, function_starts,
                 sequence, before, commits>>
  /\ UNCHANGED tool_vars

Next ==
  \/ AnalyzeFunction
  \/ SetConfig
  \/ MergeBegin
  \/ MergeAgain
  \/ PopSkip
  \/ PopStart
  \/ CollectStep
  \/ Commit
  \/ MergeEnd

Spec == Init /\ [][Next]_vars

\* Larger graphs of several functions, from statement trees without if and
\* while: the blocks a loop, a for or a match arm holds are the chains the
\* merge pass works on.
RECURSIVE branch_free(_)
branch_free(b) ==
  \/ b = <<>>
  \/ /\ branch_free(Tail(b))
     /\ CASE Head(b).k \in {"expr", "local"} -> TRUE
          [] Head(b).k \in {"loop", "for"} -> branch_free(Head(b).body)
          [] Head(b).k = "match" ->
               \A i \in 1 .. Len(Head(b).arms) :
                 Head(b).arms[i].body.k = "expr"
                   \/ branch_free(Head(b).arms[i].body.body)
          [] OTHER -> FALSE

\* builder.rs 36-38: one iteration of  for func in functions
AnalyzeWide ==
  /\ pc = "build"
  /\ node_count(graph) + 2 <= MaxWide
  /\ \E n \in 0 .. (MaxWide - 2 - node_count(graph)) :
       \E body \in {b \in BodiesOfSize(n) : branch_free(b)},
          is_test \in BOOLEAN :
         LET func == [name |-> FnNames[Len(log.fns) + 1], is_test |-> is_test,
                      body |-> body]
             r == analyze_function(graph, log, func)
         IN /\ graph' = r.g
            /\ log' = r.log
  /\ UNCHANGED <<config, pc, pass, merged, to_merge, function_starts,
                 sequence, before, after1, commits>>
  /\ UNCHANGED tool_vars

NextWide ==
  \/ AnalyzeWide
  \/ MergeBegin
  \/ PopSkip
  \/ PopStart
  \/ CollectStep
  \/ Commit
  \/ MergeEnd

SpecWide == Init /\ [][NextWide]_vars

(***************************************************************************)
(* DotRendererPass::process_label (renderer.rs).  A string is a sequence   *)
(* of characters; "zh" stands for one CJK character (three bytes of        *)
(* UTF-8), every other character is one byte.                              *)
(***************************************************************************)
MaxPieces == 3   \* pieces a label is put together from

BS == "\\"
WrapAt == 20
Word == <<"a", "b", "c", "d", "e", "f", "g", "h", "i", "j">>
Pieces ==
  {<<c>> : c \in {BS, "\"", "{", "}", "<", ">", "|", NL, " ", "a", "zh"}}
    \cup {Word}

RECURSIVE LabelsUpTo(_)
LabelsUpTo(n) ==
  IF n = 0 THEN {<<>>}
  ELSE LabelsUpTo(n - 1)
         \cup {p \o l : p \in Pieces, l \in LabelsUpTo(n - 1)}

\* str::len: the number of bytes
RECURSIVE str_len(_)
str_len(s) ==
  IF s = <<>> THEN 0
  ELSE (IF Head(s) = "zh" THEN 3 ELSE 1) + str_len(Tail(s))

\* str::replace(from, to) with a one-character pattern
RECURSIVE replace(_, _, _)
replace(s, from, to) ==
  IF s = <<>> THEN <<>>
  ELSE (IF Head(s) = from THEN to ELSE <<Head(s)>>)
         \o replace(Tail(s), from, to)

\* the replacements with the backslash replaced last
escape_backslash_last(s) ==
  replace(
    replace(
      replace(
        replace(
          replace(
            replace(
              replace(
                replace(s, "\"", <<BS, "\"">>),
                "{", <<BS, "{">>),
              "}", <<BS, "}">>),
            "<", <<BS, "<">>),
          ">", <<BS, ">">>),
        "|", <<BS, "|">>),
      NL, <<BS, "n">>),
    BS, <<BS, BS>>)

\* renderer.rs 177-185
escape(s) ==
  replace(
    replace(
      replace(
        replace(
          replace(
            replace(
              replace(
                replace(s, BS, <<BS, BS>>),
                "\"", <<BS, "\"">>),
              "{", <<BS, "{">>),
            "}", <<BS, "}">>),
          "<", <<BS, "<">>),
        ">", <<BS, ">">>),
      "|", <<BS, "|">>),
    NL, <<BS, "n">>)

is_whitespace(c) == c \in {" ", NL}

\* str::split_whitespace: the maximal runs of characters that are not
\* whitespace; word is the run being read
RECURSIVE split_from(_, _)
split_from(s, word) ==
  IF s = <<>> THEN (IF word = <<>> THEN <<>> ELSE <<word>>)
  ELSE IF is_whitespace(Head(s))
    THEN (IF word = <<>> THEN <<>> ELSE <<word>>) \o split_from(Tail(s), <<>>)
  ELSE split_from(Tail(s), Append(word, Head(s)))

split_whitespace(s) == split_from(s, <<>>)

\* renderer.rs 193-203: the loop  for word in words
RECURSIVE wrap_words(_, _, _)
wrap_words(words, text, line_length) ==
  IF words = <<>> THEN text
  ELSE IF line_length + str_len(Head(words)) > WrapAt
    THEN wrap_words(Tail(words), text \o <<BS, "n">> \o Head(words),
                    str_len(Head(words)))
  ELSE IF text # <<>>
    THEN wrap_words(Tail(words), text \o <<" ">> \o Head(words),
                    line_length + 1 + str_len(Head(words)))
  ELSE wrap_words(Tail(words), Head(words),
                  line_length + str_len(Head(words)))

\* renderer.rs 188-207
wrap_or_keep(escaped) ==
  IF str_len(escaped) > WrapAt
    THEN wrap_words(split_whitespace(escaped), <<>>, 0)
  ELSE escaped

\* renderer.rs 175-208
process_label(s) == wrap_or_keep(escape(s))

InitLabel ==
  /\ pipeline_idle
  /\ crate_idle
  /\ lib_idle
  /\ pc = "label"
  /\ raw_label \in LabelsUpTo(MaxPieces)
  /\ emitted = <<>>

\* renderer.rs 79, 134: let escaped_label = Self::process_label(..)
ProcessLabel ==
  /\ pc = "label"
  /\ emitted' = process_label(raw_label)
  /\ pc' = "labelled"
  /\ UNCHANGED <<raw_label, pipeline_vars, crate_vars, lib_vars>>

NextLabel == ProcessLabel

SpecLabel == InitLabel /\ [][NextLabel]_vars

(***************************************************************************)
(* The library entry point analyze_file (lib.rs) with its own NodeType,    *)
(* FlowGraph and ControlFlowVisitor.  A node weight is [kind, text]; the   *)
(* walk threads  b = [g, last].  The visitor knows if, while, loop and     *)
(* match; a for loop is one opaque block.  Texts are token sequences; the  *)
(* statement texts of the model hold no character that Debug escapes.      *)
(***************************************************************************)
LibNode(kind, text) == [kind |-> kind, text |-> text]

RECURSIVE visit_block(_, _, _), visit_stmt(_, _, _), visit_if(_, _, _),
          visit_while(_, _, _), visit_loop(_, _, _), visit_match(_, _, _),
          visit_arms(_, _, _, _)

\* format!("{}", quote!(#expr)) of a statement the visitor does not know
stmt_text(s) ==
  IF s.k = "for" THEN <<"for", s.pat, "in", s.iter, "{", "..", "}">>
  ELSE <<s.text>>

\* lib.rs 98-105 and 108-115
visit_plain(b, s, last_node) ==
  [g |-> add_edge(add_node(b.g, LibNode("BasicBlock", stmt_text(s))),
                  last_node, node_count(b.g), "next"),
   last |-> node_count(b.g)]

\* lib.rs 83-116: one iteration of the loop over block.stmts
visit_stmt(b, s, last_node) ==
  CASE s.k = "if" -> visit_if(b, s, last_node)
    [] s.k = "while" -> visit_while(b, s, last_node)
    [] s.k = "loop" -> visit_loop(b, s, last_node)
    [] s.k = "match" -> visit_match(b, s, last_node)
    [] OTHER -> visit_plain(b, s, last_node)

\* lib.rs 80-121; b1 is the visitor after the first statement
visit_block_rest(b1, stmts) == visit_block(b1, Tail(stmts), b1.last)

visit_block(b, stmts, parent) ==
  IF stmts = <<>> THEN [b EXCEPT !.last = parent]
  ELSE visit_block_rest(visit_stmt(b, Head(stmts), parent), stmts)

\* lib.rs 136-148: be is the visitor after the else branch
visit_if_merge(be, expr_if, cond_node, then_node, merge_node) ==
  [g |-> add_edge(
           IF expr_if.els.k # "none"
             THEN add_edge(add_edge(be.g, cond_node, be.last, "false"),
                           be.last, merge_node, "done")
           ELSE add_edge(be.g, cond_node, merge_node, "false"),
           then_node, merge_node, "done"),
   last |-> merge_node]

\* lib.rs 131-141: bt is the visitor after the then branch, g4 its graph
\* with the "true" edge and the merge node
visit_if_else(bt, g4, expr_if, cond_node) ==
  visit_if_merge(
    CASE expr_if.els.k = "block" ->
           visit_block([bt EXCEPT !.g = g4], expr_if.els.body, cond_node)
      [] expr_if.els.k = "if" ->
           visit_if([bt EXCEPT !.g = g4], expr_if.els.stmt, cond_node)
      [] OTHER -> [bt EXCEPT !.g = g4],
    expr_if, cond_node, bt.last, node_count(bt.g))

visit_if_then(bt, expr_if, cond_node) ==
  visit_if_else(
    bt,
    add_node(add_edge(bt.g, cond_node, bt.last, "true"),
             LibNode("BasicBlock", <<"merge-point">>)),
    expr_if, cond_node)

\* lib.rs 123-130
visit_if(b, expr_if, parent) ==
  visit_if_then(
    visit_block(
      [b EXCEPT !.g = add_edge(add_node(b.g, LibNode("Condition",
                                                     cond_text(expr_if))),
                               parent, node_count(b.g), "enter-test")],
      expr_if.then, node_count(b.g)),
    expr_if, node_count(b.g))

\* lib.rs 163-172: bb is the visitor after the loop body
visit_while_exit(bb, loop_entry, cond_node) ==
  [g |-> add_edge(
           add_node(
             add_edge(add_edge(bb.g, cond_node, bb.last, "true"),
                      bb.last, loop_entry, "continue"),
             LibNode("BasicBlock", <<"loop-exit">>)),
           cond_node, node_count(bb.g), "false"),
   last |-> node_count(bb.g)]

\* lib.rs 151-162
visit_while(b, expr_while, parent) ==
  visit_while_exit(
    visit_block(
      [b EXCEPT !.g =
         add_edge(
           add_node(
             add_edge(add_node(b.g, LibNode("BasicBlock", <<"loop-entry">>)),
                      parent, node_count(b.g), "enter-loop"),
             LibNode("Condition", while_text(expr_while))),
           node_count(b.g), node_count(b.g) + 1, "check")],
      expr_while.body, node_count(b.g) + 1),
    node_count(b.g), node_count(b.g) + 1)

\* lib.rs 183-190: bb is the visitor after the loop body
visit_loop_exit(bb, loop_entry) ==
  [g |-> add_edge(
           add_node(add_edge(bb.g, bb.last, loop_entry, "continue"),
                    LibNode("BasicBlock", <<"loop-exit">>)),
           loop_entry, node_count(bb.g), "break"),
   last |-> node_count(bb.g)]

\* lib.rs 175-181
visit_loop(b, expr_loop, parent) ==
  visit_loop_exit(
    visit_block(
      [b EXCEPT !.g = add_edge(add_node(b.g, LibNode("Loop",
                                                     <<"unconditional">>)),
                               parent, node_count(b.g), "enter-loop")],
      expr_loop.body, node_count(b.g)),
    node_count(b.g))

\* lib.rs 217: bb is the visitor after the body of the first arm of arms
visit_arms_next(bb, arms, match_node, merge_node) ==
  visit_arms([bb EXCEPT !.g = add_edge(bb.g, bb.last, merge_node, "next")],
             Tail(arms), match_node, merge_node)

\* lib.rs 207-215: g2 is the graph with the arm node and its "case" edge
visit_arm_body(b, g2, arm, arms, match_node, merge_node) ==
  visit_arms_next(
    IF arm.body.k = "block"
      THEN visit_block([b EXCEPT !.g = g2], arm.body.body, node_count(b.g))
    ELSE [g |-> add_edge(add_node(g2, LibNode("BasicBlock",
                                              <<arm.body.text>>)),
                         node_count(b.g), node_count(g2), "next"),
          last |-> node_count(g2)],
    arms, match_node, merge_node)

\* lib.rs 201-218: the loop over expr_match.arms
visit_arms(b, arms, match_node, merge_node) ==
  IF arms = <<>> THEN b
  ELSE visit_arm_body(
         b,
         add_edge(add_node(b.g, LibNode("BasicBlock", arm_text(Head(arms)))),
                  match_node, node_count(b.g), "case"),
         Head(arms), arms, match_node, merge_node)

\* lib.rs 193-221
visit_match(b, expr_match, parent) ==
  [visit_arms(
     [b EXCEPT !.g =
        add_node(
          add_edge(add_node(b.g, LibNode("Condition",
                                         match_text(expr_match))),
                   parent, node_count(b.g), "next"),
          LibNode("BasicBlock", <<"after_match">>))],
     expr_match.arms, node_count(b.g), node_count(b.g) + 1)
   EXCEPT !.last = node_count(b.g) + 1]

\* lib.rs 237-238: bb is the visitor after the function's block
visit_item_fn_return(bb, end_node) ==
  add_edge(bb.g, bb.last, end_node, "return")

\* lib.rs 225-239
visit_item_fn(g, func) ==
  visit_item_fn_return(
    visit_block(
      [g |-> add_node(add_node(g, LibNode("Start", <<func.name>>)),
                      LibNode("End", <<func.name>>)),
       last |-> node_count(g)],
      func.body, node_count(g)),
    node_count(g) + 1)

\* #[derive(Debug)] of NodeType and Debug of String, inside the quotes of a
\* DOT label: every double quote is written as backslash quote
QQ == "\\\""
debug_node(w) == <<w.kind, "(", QQ>> \o w.text \o <<QQ, ")">>
debug_edge(weight) == <<QQ, weight, QQ>>

\* petgraph::dot::Dot, Debug: one line per node, then one line per edge
RECURSIVE dot_nodes(_, _)
dot_nodes(g, i) ==
  IF i >= node_count(g) THEN <<>>
  ELSE <<"    ", ToString(i), " [ ", "label = ", "\"">>
         \o debug_node(node_weight(g, i)) \o <<"\"", " ]", NL>>
         \o dot_nodes(g, i + 1)

RECURSIVE dot_edges(_, _)
dot_edges(g, e) ==
  IF e >= Len(g.edges) THEN <<>>
  ELSE <<"    ", ToString(edge_at(g, e).source), " -> ",
         ToString(edge_at(g, e).target), " [ ", "label = ", "\"">>
         \o debug_edge(edge_at(g, e).weight) \o <<"\"", " ]", NL>>
         \o dot_edges(g, e + 1)

\* lib.rs 53-56: format!("{:?}", Dot::new(&self.graph))
lib_to_dot(g) ==
  <<"digraph", " {", NL>> \o dot_nodes(g, 0) \o dot_edges(g, 0) \o <<"}", NL>>

InitLib ==
  /\ pipeline_idle
  /\ label_idle
  /\ crate_idle
  /\ lib_idle
  /\ pc = "analyze_file"

\* what read_to_string and syn::parse_file find at a path
Contents == {"unreadable", "unparsable", "rust"}

\* lib.rs 500-502: read_to_string(path)? and syn::parse_file(&content)?
ParseFile ==
  /\ pc = "analyze_file"
  /\ \E content \in Contents :
       pc' = IF content = "rust" THEN "visit" ELSE "file_err"
  /\ UNCHANGED <<pipeline_vars, tool_vars>>

\* lib.rs 506, 225-239: visit_file comes to the next fn item
VisitItemFn ==
  /\ pc = "visit"
  /\ node_count(lib_graph) + 2 <= MaxNodes
  /\ \E n \in 0 .. (MaxNodes - 2 - node_count(lib_graph)) :
       \E body \in BodiesOfSize(n) :
         LET func == [name |-> FnNames[Len(syntax) + 1], body |-> body]
         IN /\ lib_graph' = visit_item_fn(lib_graph, func)
            /\ syntax' = Append(syntax, func)
  /\ UNCHANGED <<pc, result, pipeline_vars, label_vars, crate_vars>>

\* lib.rs 508: Ok(graph.to_dot())
LibToDot ==
  /\ pc = "visit"
  /\ result' = lib_to_dot(lib_graph)
  /\ pc' = "file_done"
  /\ UNCHANGED <<syntax, lib_graph, pipeline_vars, label_vars, crate_vars>>

NextLib ==
  \/ ParseFile
  \/ VisitItemFn
  \/ LibToDot

SpecLib == InitLib /\ [][NextLib]_vars

(***************************************************************************)
(* main and analyze_crate (main.rs), for  cargo graph  without --input.    *)
(* A file is [path, content, items]: items is the number of fn items of a  *)
(* file that parses, each with an empty body.  A text is a sequence of     *)
(* pieces, NL being the line break; a test  line.contains(p)  of the code  *)
(* is a test for the pieces that hold p.                                   *)
(***************************************************************************)
MaxFiles == 3    \* .rs files below the crate root
MaxItems == 1    \* fn items in one file

Paths == {"a", "b", "c"}
Styles == {"default", "c-style", "fancy"}
Files ==
  {f \in [path : Paths, content : Contents, items : 0 .. MaxItems] :
     f.content # "rust" => f.items = 0}

\* find_rust_files: what WalkDir yields, every path once
RECURSIVE FileListsUpTo(_)
FileListsUpTo(n) ==
  IF n = 0 THEN {<<>>}
  ELSE FileListsUpTo(n - 1)
         \cup UNION {{Append(l, f) :
                        f \in {x \in Files :
                                 \A i \in 1 .. Len(l) : l[i].path # x.path}} :
                     l \in FileListsUpTo(n - 1)}

\* main.rs 73: relative_path.replace(".rs", "")
module_name_of(file) == file.path

\* lib.rs 516-518: FlowGraph::new() and visit_file over the fn items
RECURSIVE visit_file(_)
visit_file(items) ==
  IF items = 0 THEN EmptyGraph
  ELSE visit_item_fn(visit_file(items - 1),
                     [name |-> FnNames[items], body |-> <<>>])

\* [String]::join and repeated push_str: the texts one after the other
RECURSIVE concat(_)
concat(texts) ==
  IF texts = <<>> THEN <<>> ELSE Head(texts) \o concat(Tail(texts))

\* GraphRenderer::render.  DotRenderer (lib.rs 269-274) gives the Debug text
\* of petgraph's Dot; CStyleFlowchartRenderer (lib.rs 476-497) puts the
\* lines of render_node (441-456) and render_edge (457-474) into the
\* template of DotTemplate::get_template (comment lines left out)
render(style, g) ==
  LET render_node(idx, node) ==
        <<"    ", "node_", ToString(idx), " [", "label=\"">>
          \o replace(IF node.kind = "BasicBlock" THEN node.text
                     ELSE <<node.kind, ": ">> \o node.text,
                     "\"", <<BS, "\"">>)
          \o <<"\", shape=",
               IF node.kind \in {"Start", "End"} THEN "circle"
               ELSE IF node.kind = "BasicBlock" THEN "box" ELSE "diamond",
               ", style=\"",
               IF node.kind = "BasicBlock" THEN "rounded" ELSE "filled",
               "\", fillcolor=\"",
               CASE node.kind = "Start" -> "lightgreen"
                 [] node.kind = "End" -> "lightpink"
                 [] node.kind = "BasicBlock" -> "white"
                 [] OTHER -> "lightyellow",
               "\"", "]", ";", NL>>
      render_edge(e) ==
        <<"    ", "node_", ToString(e.source), " -> ", "node_",
          ToString(e.target), " [", "label=\"", e.weight,
          "\", color=\"black\", style=\"solid\"", "]", ";", NL>>
  IN IF style = "c-style"
       THEN <<NL, "digraph G {", NL,
              "graph", " [", NL, "rankdir=TB,", NL, "nodesep=0.5,", NL,
              "ranksep=0.7,", NL, "splines=ortho,", NL, "concentrate=true", NL,
              "]", ";", NL,
              "node", " [", NL, "fontname=\"Arial\",", NL, "fontsize=10,", NL,
              "margin=\"0.2,0.2\",", NL, "height=0.4,", NL, "width=0.4", NL,
              "]", ";", NL,
              "edge", " [", NL, "fontname=\"Arial\",", NL, "fontsize=10,", NL,
              "dir=forward,", NL, "arrowsize=0.8,", NL, "penwidth=1", NL,
              "]", ";", NL, "    ">>
            \o concat([i \in 1 .. node_count(g) |->
                         render_node(i - 1, node_weight(g, i - 1))])
            \o <<NL, "    ">>
            \o concat([i \in 1 .. Len(g.edges) |-> render_edge(g.edges[i])])
            \o <<NL, "{ rank=source; node", " [", "shape=circle", "]", "; }", NL,
                 "{ rank=sink; node", " [", "shape=circle", "]", "; }", NL,
                 "}", NL>>
     ELSE lib_to_dot(g)

\* lib.rs 511-520: read_to_string(path)?, parse_file(&content)?, render
analyze_file_with_renderer(file, style) ==
  IF file.content = "rust"
    THEN [ok |-> TRUE, graph |-> render(style, visit_file(file.items))]
  ELSE [ok |-> FALSE, graph |-> <<>>]

\* main.rs 69-77: the files of one module, in the order of rust_files
RECURSIVE files_of(_, _)
files_of(files, name) ==
  IF files = <<>> THEN <<>>
  ELSE (IF module_name_of(Head(files)) = name THEN <<Head(files)>> ELSE <<>>)
         \o files_of(Tail(files), name)

group_files(files) ==
  {[module_name |-> name, files |-> files_of(files, name)] :
     name \in {module_name_of(files[i]) : i \in 1 .. Len(files)}}

\* main.rs 83-93: for file in files { match analyze_file_with_renderer .. }
RECURSIVE analyze_files(_, _, _, _, _)
analyze_files(name, files, style, gs, ws) ==
  IF files = <<>> THEN [graphs |-> gs, warnings |-> ws]
  ELSE IF analyze_file_with_renderer(Head(files), style).ok
    THEN analyze_files(
           name, Tail(files), style,
           Append(gs, <<name, analyze_file_with_renderer(Head(files), style).graph>>),
           ws)
  ELSE analyze_files(name, Tail(files), style, gs,
                     Append(ws, Head(files).path))

\* str::lines: the pieces between the line breaks; a line begins at the
\* first piece and after every line break but the last piece of the text
lines(s) ==
  LET begins == {i \in 1 .. Len(s) : i = 1 \/ s[i - 1] = NL}
      breaks(b) == {i \in b .. Len(s) : s[i] = NL}
      end_of(b) ==
        IF breaks(b) = {} THEN Len(s)
        ELSE (CHOOSE i \in breaks(b) : \A j \in breaks(b) : i <= j) - 1
      begin(k) ==
        CHOOSE b \in begins : Cardinality({c \in begins : c < b}) = k - 1
  IN [k \in 1 .. Cardinality(begins) |-> SubSeq(s, begin(k), end_of(begin(k)))]

\* main.rs 100-198.  For each (file_name, graph_content): the trimmed lines
\* with "->" are the edges, those with "node_", "[" and "]" the nodes
\* (136-162), and they are written into  subgraph cluster_<name>  (165-193)
merge_graphs(gs) ==
  LET has(line, pieces) == \E i \in 1 .. Len(line) : line[i] \in pieces
      trim(line) ==
        SelectSeq(line, LAMBDA c : c # "    ")
      skipped(line) ==
        line = <<>> \/ Head(line) \in {"digraph", "digraph G {", "}"}
      is_edge(line) == ~skipped(line) /\ has(line, {" -> "})
      is_node(line) ==
        /\ ~skipped(line)
        /\ ~has(line, {" -> "})
        /\ has(line, {"node_"})
        /\ has(line, {" [", " [ "})
        /\ has(line, {"]", " ]"})
      shaped(line) ==
        IF \E i \in 1 .. (Len(line) - 1) :
             line[i] = "Condition" /\ line[i + 1] = ": "
          THEN replace(line, "shape=\"oval\"", <<"shape=\"diamond\"">>)
        ELSE IF \E i \in 1 .. (Len(line) - 1) :
                  line[i] = "Loop" /\ line[i + 1] = ": "
          THEN replace(line, "shape=\"oval\"", <<"shape=\"hexagon\"">>)
        ELSE replace(line, "shape=\"oval\"", <<"shape=\"box\"">>)
      trimmed(content) ==
        [i \in 1 .. Len(lines(content)) |-> trim(lines(content)[i])]
      nodes_of(content) ==
        SelectSeq(trimmed(content), LAMBDA l : is_node(l))
      edges_of(content) ==
        SelectSeq(trimmed(content), LAMBDA l : is_edge(l))
      cluster(file_name, content) ==
        IF nodes_of(content) = <<>> /\ edges_of(content) = <<>> THEN <<>>
        ELSE <<"    subgraph cluster_", file_name, " {", NL,
               "        label=\"", file_name, "\";", NL,
               "        style=rounded;", NL, "        color=gray;", NL,
               "        bgcolor=aliceblue;", NL, "        fontsize=12;", NL,
               "        margin=16;", NL,
               "        node", " [", "style=filled", "]", ";", NL, NL>>
             \o concat([i \in 1 .. Len(nodes_of(content)) |->
                          <<"        ">> \o shaped(nodes_of(content)[i])
                            \o <<NL>>])
             \o concat([i \in 1 .. Len(edges_of(content)) |->
                          <<"        ">> \o edges_of(content)[i] \o <<NL>>])
             \o <<"    }", NL, NL>>
  IN <<"digraph G {", NL,
       "    graph", " [", NL, "        rankdir=TB;", NL,
       "        nodesep=1.2;", NL, "        ranksep=1.5;", NL,
       "        splines=ortho;", NL, "        concentrate=true;", NL,
       "        compound=true;", NL, "        newrank=true", NL,
       "    ]", ";", NL, NL,
       "    node", " [", NL, "        fontname=\"Arial\";", NL,
       "        fontsize=12;", NL, "        margin=\"0.5,0.3\";", NL,
       "        height=0;", NL, "        width=0", NL, "    ]", ";", NL, NL,
       "    edge", " [", NL, "        fontname=\"Arial\";", NL,
       "        fontsize=10;", NL, "        dir=forward;", NL,
       "        arrowsize=0.8;", NL, "        penwidth=1;", NL,
       "        minlen=2", NL, "    ]", ";", NL, NL>>
     \o concat([i \in 1 .. Len(gs) |-> cluster(gs[i][1], gs[i][2])])
     \o <<"}", NL>>

InitCrate ==
  /\ pipeline_idle
  /\ label_idle
  /\ lib_idle
  /\ crate_idle
  /\ pc = "main"

\* main.rs 203-210: the renderer of args.style
Main ==
  /\ pc = "main"
  /\ \E style \in Styles :
       /\ renderer' = style
       /\ pc' = IF style \in {"default", "c-style"} THEN "crate_root" ELSE "err"
  /\ UNCHANGED <<rust_files, module_files, graphs, dot_content, warnings,
                 pipeline_vars, label_vars, lib_vars>>

\* main.rs 219, 32-41: get_crate_root()?
GetCrateRoot ==
  /\ pc = "crate_root"
  /\ \E cargo_toml_exists \in BOOLEAN :
       pc' = IF cargo_toml_exists THEN "analyze_crate" ELSE "err"
  /\ UNCHANGED <<pipeline_vars, tool_vars>>

\* main.rs 61-77: find_rust_files and the loop that fills module_files
FindRustFiles ==
  /\ pc = "analyze_crate"
  /\ \E files \in FileListsUpTo(MaxFiles) :
       /\ rust_files' = files
       /\ module_files' = group_files(files)
  /\ pc' = "modules"
  /\ UNCHANGED <<renderer, graphs, dot_content, warnings, pipeline_vars,
                 label_vars, lib_vars>>

\* main.rs 80-94: one iteration of  for (module_name, files) in module_files
\* (a HashMap: any order)
AnalyzeModule ==
  /\ pc = "modules"
  /\ \E m \in module_files :
       LET r == analyze_files(m.module_name, m.files, renderer, graphs,
                              warnings) IN
       /\ graphs' = r.graphs
       /\ warnings' = r.warnings
       /\ module_files' = module_files \ {m}
       /\ pc' = "modules"
  /\ UNCHANGED <<rust_files, renderer, dot_content, pipeline_vars,
                 label_vars, lib_vars>>

\* main.rs 96-97: Ok(merge_graphs(graphs))
CrateAnalyzed ==
  /\ pc = "modules"
  /\ module_files = {}
  /\ dot_content' = merge_graphs(graphs)
  /\ pc' = "write"
  /\ UNCHANGED <<rust_files, module_files, renderer, graphs, warnings,
                 pipeline_vars, label_vars, lib_vars>>

\* main.rs 224-225: std::fs::write(&temp_dot, dot_content)?
WriteDot ==
  /\ pc = "write"
  /\ \E written \in BOOLEAN : pc' = IF written THEN "convert" ELSE "err"
  /\ UNCHANGED <<pipeline_vars, tool_vars>>

\* main.rs 228-240: run dot, remove the temporary file, look at the status
ConvertToSvg ==
  /\ pc = "convert"
  /\ \E status \in {"not started", "failure", "success"}, removed \in BOOLEAN :
       pc' = IF status = "success" /\ removed THEN "ok" ELSE "err"
  /\ UNCHANGED <<pipeline_vars, tool_vars>>

NextCrate ==
  \/ Main
  \/ GetCrateRoot
  \/ FindRustFiles
  \/ AnalyzeModule
  \/ CrateAnalyzed
  \/ WriteDot
  \/ ConvertToSvg

SpecCrate == InitCrate /\ [][NextCrate]_vars

(***************************************************************************)
(* FlowGraph used through its public functions add_node and add_edge       *)
(* (flow_graph.rs 52-59): any nodes, any edges, then to_dot.               *)
(***************************************************************************)
MaxApiNodes == 3
MaxApiEdges == 3

\* FlowGraph::add_node with a node of the caller's choice
AddNode ==
  /\ pc = "build"
  /\ log = EmptyLog
  /\ node_count(graph) < MaxApiNodes
  /\ \E w \in {BasicBlock(<<"a">>, node_count(graph)),
                Condition(<<"c">>, node_count(graph))} :
       graph' = add_node(graph, w)
  /\ UNCHANGED <<config, log, pc, pass, merged, to_merge, function_starts,
                 sequence, before, after1, commits>>
  /\ UNCHANGED tool_vars

\* FlowGraph::add_edge between two nodes of the caller's choice
AddEdge ==
  /\ pc = "build"
  /\ log = EmptyLog
  /\ Len(graph.edges) < MaxApiEdges
  /\ \E from, to \in node_indices(graph) :
       graph' = add_edge(graph, from, to, "next")
  /\ UNCHANGED <<config, log, pc, pass, merged, to_merge, function_starts,
                 sequence, before, after1, commits>>
  /\ UNCHANGED tool_vars

NextApi ==
  \/ AddNode
  \/ AddEdge
  \/ MergeBegin
  \/ PopSkip
  \/ PopStart
  \/ CollectStep
  \/ Commit
  \/ MergeEnd

SpecApi == Init /\ [][NextApi]_vars

(***************************************************************************)
(* Properties.                                                             *)
(***************************************************************************)
\* the nodes (kind, text) and the edges (source, target, label) of a graph,
\* in index order
node_view(g) ==
  [i \in 1 .. Len(g.nodes) |-> <<g.nodes[i].kind, g.nodes[i].text>>]
edge_view(g) ==
  [i \in 1 .. Len(g.edges) |->
     <<g.edges[i].source, g.edges[i].target, g.edges[i].weight>>]
same_graph(g, h) == node_view(g) = node_view(h) /\ edge_view(g) = edge_view(h)

\* the texts of a chain joined by line breaks
RECURSIVE joined(_)
joined(texts) ==
  IF Len(texts) = 1 THEN texts[1]
  ELSE texts[1] \o <<NL>> \o joined(Tail(texts))

uids_of(g) == {g.nodes[i].uid : i \in 1 .. Len(g.nodes)}

\* C1: canonicalization is idempotent: when merge_basic_blocks has run a
\* second time, on its own result, the graph has the nodes, texts and edges
\* it had after the first run.
C1_Idempotent ==
  (pc = "done" /\ pass = 2) => same_graph(graph, after1)

\* a committed chain all of whose members are mergeable blocks, as C2 takes it
clean_chain(c) ==
  /\ Len(c.seq) >= 2
  /\ \A j \in 1 .. Len(c.seq) : is_mergeable_block(c.pre, c.seq[j])

\* C2: content-order preservation: a chain n1 -> ... -> nk (k >= 2) of
\* mergeable blocks is replaced by one surviving node, n1, whose text is the
\* members' texts joined in chain order by line breaks, and none of n2..nk
\* remains in the graph, wherever the chain sits among the node indices.
C2_ContentOrder ==
  \A i \in 1 .. Len(commits) :
    LET c == commits[i]
        first == c.seq[1]
    IN clean_chain(c) =>
         /\ has_node(c.post, first)
         /\ node_weight(c.post, first).kind = "BasicBlock"
         /\ node_weight(c.post, first).uid = node_weight(c.pre, first).uid
         /\ node_weight(c.post, first).text =
              joined([j \in 1 .. Len(c.seq) |-> node_weight(c.pre, c.seq[j]).text])
         /\ \A j \in 2 .. Len(c.seq) :
              node_weight(c.pre, c.seq[j]).uid \notin uids_of(c.post)

\* C7: node identity is stable: across building and canonicalization every
\* node of the graph is found at the index it was created with.
C7_StableIdentity ==
  \A n \in node_indices(graph) : node_weight(graph, n).uid = n

\* the nodes reachable from a set of nodes along the edges
RECURSIVE reach(_, _)
reach(g, set) ==
  LET more == set \cup {g.edges[i].target :
                          i \in {j \in 1 .. Len(g.edges) : g.edges[j].source \in set}}
  IN IF more = set THEN set ELSE reach(g, more)

kind_nodes(g, kind) == {n \in node_indices(g) : node_weight(g, n).kind = kind}
test_starts(g) == {n \in kind_nodes(g, "Start") : node_weight(g, n).test}

\* the edges of g from a to b labelled l, as edge indices
edges_from_to(g, a, b, l) ==
  {e \in edge_indices(g) :
     /\ edge_at(g, e).source = a
     /\ edge_at(g, e).target = b
     /\ edge_at(g, e).weight = l}
\* the edges of g that leave a with label l
edges_labelled(g, a, l) ==
  {e \in edge_indices(g) : edge_at(g, e).source = a /\ edge_at(g, e).weight = l}

\* C3: build creates exactly one FunctionEntry and exactly one FunctionExit
\* per function, and each FunctionExit has in-degree >= 1, also when the
\* function's body is empty.
C3_EntryExit ==
  pc = "build" =>
    /\ Cardinality(kind_nodes(graph, "Start")) = Len(log.fns)
    /\ Cardinality(kind_nodes(graph, "End")) = Len(log.fns)
    /\ \A i \in 1 .. Len(log.fns) :
         LET f == log.fns[i] IN
         /\ {n \in kind_nodes(graph, "Start") :
               node_weight(graph, n).text = <<f.name>>} = {f.start_node}
         /\ {n \in kind_nodes(graph, "End") :
               node_weight(graph, n).text = <<f.name>>} = {f.end_node}
         /\ in_degree(graph, f.end_node) >= 1

C3_Witness ==
  /\ pc = "build"
  /\ Len(log.fns) >= 2
  /\ \E i \in 1 .. Len(log.fns) : log.fns[i].body = <<>>
  /\ \E i \in 1 .. Len(log.fns) : log.fns[i].body # <<>>

\* C4: with include_tests = false no node that is forward-reachable from a
\* FunctionEntry whose is_test flag is true is returned by nodes(), in any
\* graph, cyclic or not.
C4_TestsHidden ==
  ~config.include_tests =>
    \A s \in test_starts(graph) :
      reach(graph, {s}) \cap Range(nodes(graph, config)) = {}

\* a test function with a cycle among its nodes, next to visible nodes
C4_Witness ==
  /\ ~config.include_tests
  /\ nodes(graph, config) # <<>>
  /\ \E s \in test_starts(graph) :
       \E n \in reach(graph, {s}) :
         /\ n # s
         /\ n \in reach(graph, {edge_at(graph, e).target :
                                  e \in out_edges_of(graph, n)})

\* C5: with include_tests = true the visible nodes are all the nodes of the
\* graph and the visible edges are all its edges, whatever test entries the
\* graph contains.
C5_AllVisible ==
  config.include_tests =>
    /\ nodes(graph, config) = [i \in 1 .. node_count(graph) |-> i - 1]
    /\ edges(graph, config) =
         [i \in 1 .. Len(graph.edges) |->
            [source |-> graph.edges[i].source,
             target |-> graph.edges[i].target,
             weight |-> graph.edges[i].weight]]

C5_Witness ==
  /\ config.include_tests
  /\ \E s \in test_starts(graph) : Cardinality(reach(graph, {s})) >= 3
  /\ kind_nodes(graph, "Start") # test_starts(graph)

\* C6: an edge is returned by edges() if and only if its source and its
\* target are both visible: no returned edge refers to a hidden node, and
\* every edge between visible nodes is returned as often as the graph holds
\* it (parallel edges are all returned).
C6_VisibleEdges ==
  LET visible == Range(nodes(graph, config))
      returned == edges(graph, config)
      count(a, b, l) ==
        Cardinality({i \in 1 .. Len(returned) :
                       returned[i] = [source |-> a, target |-> b, weight |-> l]})
  IN /\ \A i \in 1 .. Len(returned) :
          returned[i].source \in visible /\ returned[i].target \in visible
     /\ \A e \in edge_indices(graph) :
          LET x == edge_at(graph, e) IN
          count(x.source, x.target, x.weight) =
            IF x.source \in visible /\ x.target \in visible
              THEN Cardinality(edges_from_to(graph, x.source, x.target, x.weight))
            ELSE 0

\* some edges are hidden while two parallel edges with one label are visible
C6_Witness ==
  /\ ~config.include_tests
  /\ Len(edges(graph, config)) < Len(graph.edges)
  /\ \E e \in edge_indices(graph) :
       LET x == edge_at(graph, e) IN
       /\ x.source \in Range(nodes(graph, config))
       /\ Cardinality(edges_from_to(graph, x.source, x.target, x.weight)) >= 2

\* the edges of g that satisfy keep, as records in edge order
edges_in_order(g, keep(_)) ==
  LET idx == filter_indices(Len(g.edges), 0,
                            {e \in edge_indices(g) : keep(edge_at(g, e))})
  IN [i \in 1 .. Len(idx) |-> edge_at(g, idx[i])]

\* C8: for an if without else, build creates a Condition node with one
\* "true" edge, which ends at a node of the then-branch, one "false" edge,
\* which goes directly to the merge node, a "done" edge from the end of the
\* then-branch to the merge node, and no nodes for an else branch.
C8_IfNoElse ==
  pc = "build" =>
    \A i \in 1 .. Len(log.ifs) :
      LET f == log.ifs[i] IN
      f.els = "none" =>
        /\ node_weight(graph, f.cond_node).kind = "Condition"
        /\ \A e \in edges_labelled(graph, f.cond_node, "true") :
             edge_at(graph, e).target
               \in (f.cond_node + 1) .. (f.cond_node + f.then_len)
        /\ Cardinality(edges_labelled(graph, f.cond_node, "true")) = 1
        /\ edges_labelled(graph, f.cond_node, "false")
             = edges_from_to(graph, f.cond_node, f.merge_node, "false")
        /\ Cardinality(edges_labelled(graph, f.cond_node, "false")) = 1
        /\ Cardinality(edges_from_to(graph, f.then_node, f.merge_node, "done")) = 1
        /\ f.merge_node = f.cond_node + f.then_len + 1
        /\ f.end = f.merge_node + 1

C10_MatchArms ==
  pc = "build" =>
    \A i \in 1 .. Len(log.matches) :
      LET m == log.matches[i]
          n == Len(m.declared)
          case_edges == edges_in_order(graph,
                          LAMBDA x : x.source = m.match_node /\ x.weight = "case")
          merge_edges == edges_in_order(graph,
                           LAMBDA x : x.target = m.merge_node)
          arm_end(k) == IF k = n THEN m.end ELSE m.arms[k + 1].arm_node
          body_size(arm) == IF arm.body.k = "expr" THEN 1
                            ELSE BlockSize(arm.body.body)
      IN /\ Len(m.arms) = n
         /\ node_weight(graph, m.match_node).kind = "Condition"
         /\ node_weight(graph, m.merge_node).kind = "BasicBlock"
         /\ Len(case_edges) = n
         /\ Len(merge_edges) = n
         /\ \A k \in 1 .. n :
              /\ case_edges[k].target = m.arms[k].arm_node
              /\ node_weight(graph, m.arms[k].arm_node).kind = "BasicBlock"
              /\ node_weight(graph, m.arms[k].arm_node).text = arm_text(m.declared[k])
              /\ arm_end(k) - m.arms[k].arm_node = 1 + body_size(m.declared[k])
              /\ merge_edges[k].source = m.arms[k].body_node
              /\ merge_edges[k].weight = "next"
              /\ m.arms[k].body_node \in m.arms[k].arm_node .. (arm_end(k) - 1)

\* the number of nodes the builder makes for the functions it was given
RECURSIVE nodes_made(_)
nodes_made(fns) ==
  IF fns = <<>> THEN 0 ELSE 2 + BlockSize(Head(fns).body) + nodes_made(Tail(fns))

\* the plain statements of a block, nested ones included
RECURSIVE plain_in_block(_), plain_in_stmt(_), plain_in_arms(_), plain_in_fns(_)
plain_in_block(b) ==
  IF b = <<>> THEN 0 ELSE plain_in_stmt(Head(b)) + plain_in_block(Tail(b))
plain_in_stmt(s) ==
  CASE s.k \in {"expr", "local"} -> 1
    [] s.k = "if" ->
         plain_in_block(s.then)
           + (CASE s.els.k = "none" -> 0
                [] s.els.k = "block" -> plain_in_block(s.els.body)
                [] s.els.k = "if" -> plain_in_stmt(s.els.stmt))
    [] s.k = "match" -> plain_in_arms(s.arms)
    [] OTHER -> plain_in_block(s.body)
plain_in_arms(arms) ==
  IF arms = <<>> THEN 0
  ELSE (IF Head(arms).body.k = "expr" THEN 0
        ELSE plain_in_block(Head(arms).body.body))
       + plain_in_arms(Tail(arms))
plain_in_fns(fns) ==
  IF fns = <<>> THEN 0
  ELSE plain_in_block(Head(fns).body) + plain_in_fns(Tail(fns))

\* C11: build never reaches a panic, whatever statement trees it is given,
\* and every statement it does not recognise becomes exactly one BasicBlock
\* that holds the statement's text and is entered by one "next" edge from
\* the statement's predecessor.
C11_NeverFails ==
  pc = "build" =>
    /\ ~graph.panic
    /\ node_count(graph) = nodes_made(log.fns)
    /\ Len(log.leaves) = plain_in_fns(log.fns)
    /\ \A i \in 1 .. Len(log.leaves) :
         LET l == log.leaves[i] IN
         /\ has_node(graph, l.node)
         /\ has_node(graph, l.parent)
         /\ l.parent < l.node
         /\ node_weight(graph, l.node).kind = "BasicBlock"
         /\ node_weight(graph, l.node).text = l.text
         /\ l.text \in {<<LeafTexts[j]>> : j \in 1 .. Len(LeafTexts)}
         /\ Cardinality(edges_from_to(graph, l.parent, l.node, "next")) = 1
         /\ \A j \in 1 .. Len(log.leaves) : log.leaves[j].node = l.node => j = i

\* a plain statement inside a conditional that has an else-if with an empty
\* branch
C11_Witness ==
  /\ pc = "build"
  /\ ~graph.panic
  /\ \E i \in 1 .. Len(log.ifs) : log.ifs[i].els = "if"
  /\ \E i \in 1 .. Len(log.ifs) : log.ifs[i].then_len = 0
  /\ \E i \in 1 .. Len(log.leaves) :
       node_weight(graph, log.leaves[i].parent).kind = "Condition"

\* the FunctionEntry and FunctionExit nodes of a graph, by identity
entry_exit_nodes(g) ==
  {g.nodes[i] : i \in {j \in 1 .. Len(g.nodes) : g.nodes[j].kind \in {"Start", "End"}}}

\* the function a node was made for: its position in log.fns
fn_of(uid) ==
  CHOOSE i \in 1 .. Len(log.fns) :
    log.fns[i].start_node <= uid /\ uid < log.fns[i].end

\* C12: after build and after canonicalization every FunctionEntry has
\* out-degree >= 1, and canonicalization never removes a FunctionEntry or a
\* FunctionExit, never changes its content and never has one in a chain,
\* neither as a member nor as the node the chain is merged into.
C12_EntryExitKept ==
  /\ \A n \in kind_nodes(graph, "Start") : out_degree(graph, n) >= 1
  /\ pc # "build" => entry_exit_nodes(graph) = entry_exit_nodes(before)
  /\ Cardinality(kind_nodes(graph, "Start")) = Len(log.fns)
  /\ Cardinality(kind_nodes(graph, "End")) = Len(log.fns)
  /\ \A i \in 1 .. Len(commits) :
       \A j \in 1 .. Len(commits[i].seq) :
         /\ has_node(commits[i].pre, commits[i].seq[j])
         /\ node_weight(commits[i].pre, commits[i].seq[j]).kind
              \notin {"Start", "End"}

\* two functions, one of them with an empty body, after a pass that merged
C12_Witness ==
  /\ pc = "done"
  /\ Len(commits) >= 1
  /\ Len(log.fns) >= 2
  /\ \E i \in 1 .. Len(log.fns) : log.fns[i].body = <<>>

\* C13: the graph is a forest of disjoint function subgraphs: after build
\* and after canonicalization no edge has its source among the nodes of one
\* function and its target among the nodes of another function.
C13_DisjointFunctions ==
  \A e \in edge_indices(graph) :
    fn_of(node_weight(graph, edge_at(graph, e).source).uid)
      = fn_of(node_weight(graph, edge_at(graph, e).target).uid)

\* C19: for a while loop whose body has at least one statement, the "true"
\* edge leaving the condition node ends at the first node of the body, it is
\* the only edge from the condition node into the body, and the "continue"
\* back-edge leaves the last node of the body.
C19_WhileBody ==
  pc = "build" =>
    \A i \in 1 .. Len(log.whiles) :
      LET w == log.whiles[i]
          body == (w.cond_node + 1) .. (w.cond_node + w.body_len)
      IN w.body_len >= 1 =>
        /\ Cardinality(edges_labelled(graph, w.cond_node, "true")) = 1
        /\ \A e \in edges_labelled(graph, w.cond_node, "true") :
             edge_at(graph, e).target = w.cond_node + 1
        /\ {e \in out_edges_of(graph, w.cond_node) :
              edge_at(graph, e).target \in body}
             = edges_labelled(graph, w.cond_node, "true")
        /\ w.body_node \in body
        /\ Cardinality(edges_from_to(graph, w.body_node, w.loop_entry,
                                     "continue")) = 1

\* C20: every conditional creates exactly one merge node, which is what the
\* conditional returns as the predecessor of the following statement; the
\* merge node has exactly two incoming edges: the "done" edge of the end of
\* the then-branch and either the "done" edge of the end of the else branch
\* (a block, or the merge node of the else-if) or, without else, the "false"
\* edge of the condition.
C20_MergeNode ==
  pc = "build" =>
    \A i \in 1 .. Len(log.ifs) :
      LET f == log.ifs[i]
          then_done == edges_from_to(graph, f.then_node, f.merge_node, "done")
          other == IF f.els = "none"
                     THEN edges_from_to(graph, f.cond_node, f.merge_node,
                                        "false")
                   ELSE edges_from_to(graph, f.else_node, f.merge_node,
                                      "done")
      IN
        /\ node_weight(graph, f.merge_node).text = <<"merge-point">>
        /\ \A j \in 1 .. Len(log.ifs) :
             log.ifs[j].merge_node = f.merge_node => j = i
        /\ then_done # {}
        /\ other # {}
        /\ in_edges_of(graph, f.merge_node) = then_done \cup other
        /\ Cardinality(in_edges_of(graph, f.merge_node)) = 2

\* the characters of s, each of backslash, double quote, { } < > | with one
\* backslash put before it, each newline as backslash n, the others as they
\* are
RECURSIVE each_escaped(_)
each_escaped(s) ==
  IF s = <<>> THEN <<>>
  ELSE (CASE Head(s) \in {BS, "\"", "{", "}", "<", ">", "|"} -> <<BS, Head(s)>>
          [] Head(s) = NL -> <<BS, "n">>
          [] OTHER -> <<Head(s)>>)
         \o each_escaped(Tail(s))

\* C17 as stated: for every label, of any length, the text the renderer
\* emits is the label with each of backslash, double quote, { } < > | given
\* one preceding backslash and each newline turned into backslash n, and
\* nothing else added, removed or changed.
C17_EscapeOnly ==
  pc = "labelled" => emitted = each_escaped(raw_label)

\* C17 amended: for every label whose escaped text is at most 20 bytes long
\* the emitted text is exactly the escaped label: the replacements applied
\* with the backslash first, so that no backslash is escaped twice.
C17_EscapeShort ==
  (pc = "labelled" /\ str_len(each_escaped(raw_label)) <= WrapAt)
    => emitted = each_escaped(raw_label)

\* a processed label that holds a backslash, a double quote and a newline
C17_Witness ==
  /\ pc = "labelled"
  /\ str_len(each_escaped(raw_label)) <= WrapAt
  /\ {BS, "\"", NL} \subseteq Range(raw_label)

\* the paths of the files of fs whose analysis succeeds / fails
paths_with(fs, ok) ==
  {fs[i].path : i \in {j \in 1 .. Len(fs) :
                         analyze_file_with_renderer(fs[j], renderer).ok = ok}}

\* C18: in crate-level analysis a file whose analysis fails is reported
\* with one warning that names it and does not stop the remaining files
\* from being analysed and from contributing their graphs, and the whole
\* operation ends with an error only when no file produced a graph.
C18_FailedFileWarned ==
  /\ pc \in {"write", "convert", "ok"} =>
       /\ Range(warnings) = paths_with(rust_files, FALSE)
       /\ {graphs[i][1] : i \in 1 .. Len(graphs)} = paths_with(rust_files, TRUE)
       /\ Len(warnings) + Len(graphs) = Len(rust_files)
  /\ pc = "err" => graphs = <<>>

\* text holds the tokens of pattern, one after the other
contains(text, pattern) ==
  \E i \in 0 .. (Len(text) - Len(pattern)) :
    SubSeq(text, i + 1, i + Len(pattern)) = pattern

\* a statement of one of the kinds is in the block, at any depth
RECURSIVE has_stmt(_, _)
has_stmt(b, kinds) ==
  \E i \in 1 .. Len(b) :
    \/ b[i].k \in kinds
    \/ b[i].k \in {"while", "loop", "for"} /\ has_stmt(b[i].body, kinds)
    \/ b[i].k = "if"
         /\ \/ has_stmt(b[i].then, kinds)
            \/ b[i].els.k = "block" /\ has_stmt(b[i].els.body, kinds)
            \/ b[i].els.k = "if" /\ has_stmt(<<b[i].els.stmt>>, kinds)
    \/ b[i].k = "match"
         /\ \E j \in 1 .. Len(b[i].arms) :
              /\ b[i].arms[j].body.k = "block"
              /\ has_stmt(b[i].arms[j].body.body, kinds)

\* C16: for every function analysed by analyze_file the text returned is
\* not empty and contains  Start: <function name> ; a function with an if
\* or a match puts a Condition node into the text, and a function with a
\* while loop puts a Loop node into it.
C16_LibOutput ==
  pc = "file_done" =>
    /\ result # <<>>
    /\ \A i \in 1 .. Len(syntax) :
         /\ contains(result, <<"Start", ": ", syntax[i].name>>)
         /\ has_stmt(syntax[i].body, {"if", "match"})
              => contains(result, <<"Condition">>)
         /\ has_stmt(syntax[i].body, {"while"}) => contains(result, <<"Loop">>)

\* C21: each unconditional or for loop has exactly one back-edge, from the
\* end of its body to the loop header (a self-loop on the header when the
\* body is empty), and exactly one exit node, whose single incoming edge
\* comes from the loop header, break or no break; the exit node is what the
\* loop returns as the predecessor of the following statement.
C21_LoopBackAndExit ==
  pc = "build" =>
    \A i \in 1 .. Len(log.loops) :
      LET l == log.loops[i]
          exit_label == IF l.k = "for" THEN "exhausted" ELSE "break"
      IN
        /\ node_weight(graph, l.header).kind = "Loop"
        /\ l.body_len = 0 => l.body_node = l.header
        /\ Cardinality(edges_from_to(graph, l.body_node, l.header,
                                     "continue")) = 1
        /\ {e \in in_edges_of(graph, l.header) :
              edge_at(graph, e).weight = "continue"}
             = edges_from_to(graph, l.body_node, l.header, "continue")
        /\ node_weight(graph, l.exit_node).text = <<"loop-exit">>
        /\ in_edges_of(graph, l.exit_node)
             = edges_from_to(graph, l.header, l.exit_node, exit_label)
        /\ Cardinality(in_edges_of(graph, l.exit_node)) = 1

\* the mergeable predicate of the specification: a BasicBlock with exactly
\* one incoming and one outgoing edge whose predecessor and successor are
\* neither FunctionEntry nor FunctionExit
mergeable(g, n) ==
  /\ has_node(g, n)
  /\ node_weight(g, n).kind = "BasicBlock"
  /\ Cardinality(in_edges_of(g, n)) = 1
  /\ Cardinality(out_edges_of(g, n)) = 1
  /\ \A e \in in_edges_of(g, n) :
       node_weight(g, edge_at(g, e).source).kind \notin {"Start", "End"}
  /\ \A e \in out_edges_of(g, n) :
       node_weight(g, edge_at(g, e).target).kind \notin {"Start", "End"}

\* C23: every node of a chain that canonicalization commits, its first node
\* included, is mergeable in the graph the chain is committed on, and a node
\* that is not mergeable there is neither removed nor given another text.
C23_MembersMergeable ==
  \A i \in 1 .. Len(commits) :
    LET c == commits[i] IN
      /\ \A j \in 1 .. Len(c.seq) : mergeable(c.pre, c.seq[j])
      /\ \A n \in node_indices(c.pre) :
           ~mergeable(c.pre, n) =>
             \E m \in node_indices(c.post) :
               /\ node_weight(c.post, m).uid = node_weight(c.pre, n).uid
               /\ node_weight(c.post, m).text = node_weight(c.pre, n).text

C23_Witness ==
  /\ pc = "done"
  /\ \E i, j \in 1 .. Len(commits) :
       /\ i < j
       /\ commits[i].pass = commits[j].pass
       /\ Len(commits[j].seq) >= 2
       /\ \E n \in node_indices(commits[j].pre) :
            /\ node_weight(commits[j].pre, n).kind = "BasicBlock"
            /\ ~mergeable(commits[j].pre, n)

\* C22: in every builder of the repository a for loop is built as a loop: a
\* Loop header whose text names the pattern and the iterated expression, a
\* body and an exit node; it is never reduced to one opaque BasicBlock.  Here
\* for the builder of lib.rs: every function with a for loop has a Loop node
\* in the graph, and no BasicBlock holds the text of a whole for loop.
C22_ForIsLoop ==
  /\ \A n \in node_indices(lib_graph) :
       node_weight(lib_graph, n).kind = "BasicBlock"
         => Head(node_weight(lib_graph, n).text) # "for"
  /\ \A i \in 1 .. Len(syntax) :
       has_stmt(syntax[i].body, {"for"})
         => \E n \in node_indices(lib_graph) :
              node_weight(lib_graph, n).kind = "Loop"

\* how often the piece of text t occurs in the piece sequence text
RECURSIVE count_in(_, _)
count_in(text, t) ==
  IF text = <<>> THEN 0
  ELSE (IF Head(text) = t THEN 1 ELSE 0) + count_in(Tail(text), t)

\* how often t occurs in the texts of the BasicBlocks among the first n nodes
RECURSIVE occurrences(_, _, _)
occurrences(g, n, t) ==
  IF n = 0 THEN 0
  ELSE (IF g.nodes[n].kind = "BasicBlock" THEN count_in(g.nodes[n].text, t)
        ELSE 0) + occurrences(g, n - 1, t)

\* the identities of the members of a committed chain
chain_uids(c) == {node_weight(c.pre, c.seq[j]).uid : j \in 1 .. Len(c.seq)}

\* C24: no node is merged twice and no text is duplicated or lost: after
\* canonicalization every piece of BasicBlock text of the original graph
\* occurs as often as before, a node absorbed into a merged node does not
\* survive as a node of its own, and no node is in two committed chains.
C24_NoTextLostOrTwice ==
  (pc = "done" /\ pass = 1) =>
    /\ \A n \in kind_nodes(before, "BasicBlock") :
         \A k \in 1 .. Len(node_weight(before, n).text) :
           LET t == node_weight(before, n).text[k] IN
             occurrences(graph, Len(graph.nodes), t)
               = occurrences(before, Len(before.nodes), t)
    /\ \A i \in 1 .. Len(commits) :
         \A j \in 2 .. Len(commits[i].seq) :
           node_weight(commits[i].pre, commits[i].seq[j]).uid \notin uids_of(graph)
    /\ \A i, j \in 1 .. Len(commits) :
         i # j => chain_uids(commits[i]) \cap chain_uids(commits[j]) = {}

\* C25: get_function_nodes terminates on every graph, with back-edges,
\* self-loops and parallel edges, walks the edges of each node at most once,
\* and returns exactly the nodes reachable from the start node along the
\* edges, the start node included.
C25_ForwardReachable ==
  pc \in {"build", "done"} =>
    \A n \in node_indices(graph) :
      LET visits == function_nodes_visits(graph, <<n>>, <<>>) IN
        /\ get_function_nodes(graph, n) = reach(graph, {n})
        /\ Range(visits) = get_function_nodes(graph, n)
        /\ Len(visits) = Cardinality(Range(visits))
        /\ n \in get_function_nodes(graph, n)

\* a graph after a merge with a self-loop, two parallel edges and a cycle of
\* two or more nodes
C25_Witness ==
  /\ pc = "done"
  /\ commits # <<>>
  /\ \E e \in edge_indices(graph) : edge_at(graph, e).source = edge_at(graph, e).target
  /\ \E e, f \in edge_indices(graph) :
       /\ e # f
       /\ edge_at(graph, e).source = edge_at(graph, f).source
       /\ edge_at(graph, e).target = edge_at(graph, f).target
  /\ \E a, b \in node_indices(graph) :
       /\ a # b
       /\ b \in reach(graph, {a})
       /\ a \in reach(graph, {b})

\* the edges of g as (identity of source, identity of target, label)
uid_edges(g, es) ==
  {<<node_weight(g, edge_at(g, e).source).uid,
     node_weight(g, edge_at(g, e).target).uid,
     edge_at(g, e).weight>> : e \in es}

\* C26: canonicalization preserves control flow around a merged chain: when
\* the chain first..last is committed and the successor of last is S by an
\* edge labelled L, then afterwards first has exactly one outgoing edge, to S
\* with label L, and exactly its original incoming edge; and each
\* FunctionExit that was reachable from its FunctionEntry before
\* canonicalization is reachable from it afterwards.
C26_FlowAroundChain ==
  /\ \A i \in 1 .. Len(commits) :
       LET c == commits[i]
           first == c.seq[1]
           last == c.seq[Len(c.seq)]
           first_uid == node_weight(c.pre, first).uid
       IN
         /\ has_node(c.post, first)
         /\ Cardinality(out_edges_of(c.post, first)) = 1
         /\ uid_edges(c.post, out_edges_of(c.post, first))
              = {<<first_uid, t[2], t[3]>> :
                   t \in uid_edges(c.pre, out_edges_of(c.pre, last))}
         /\ Cardinality(in_edges_of(c.post, first)) = 1
         /\ uid_edges(c.post, in_edges_of(c.post, first))
              = uid_edges(c.pre, in_edges_of(c.pre, first))
  /\ pc = "done" =>
       \A a \in kind_nodes(graph, "Start") :
         \A b \in kind_nodes(graph, "End") :
           /\ node_weight(graph, a).text = node_weight(graph, b).text
           /\ \E a0 \in kind_nodes(before, "Start") :
                \E b0 \in kind_nodes(before, "End") :
                  /\ node_weight(before, a0).uid = node_weight(graph, a).uid
                  /\ node_weight(before, b0).uid = node_weight(graph, b).uid
                  /\ b0 \in reach(before, {a0})
           => b \in reach(graph, {a})

\* C27: with include_tests = false the nodes that to_dot declares
\* (canonicalize, then filter, then render) hold no node made for a test
\* function, its FunctionExit and the blocks after a merged chain included,
\* and hold every surviving node of every function that is not a test.
C27_TestsHidden ==
  (pc = "done" /\ pass = 1 /\ ~config.include_tests) =>
    \A n \in node_indices(graph) :
      n \in Range(nodes(graph, config))
        <=> ~log.fns[fn_of(node_weight(graph, n).uid)].is_test

\* C28: after build every node made for a function, the FunctionExit and the
\* nodes of the statements after an if, a loop or a match included (also a
\* match without arms and constructs with empty bodies), is reachable from
\* the function's FunctionEntry.
C28_AllReachable ==
  pc = "build" =>
    \A i \in 1 .. Len(log.fns) :
      \A n \in log.fns[i].start_node .. (log.fns[i].end - 1) :
        n \in reach(graph, {log.fns[i].start_node})

\* C29: merge_basic_blocks terminates on every graph that add_node and
\* add_edge can build, a cycle of BasicBlocks of in-degree and out-degree 1
\* included: the growth of a chain never comes to a node that is already in
\* the chain (where the loop of collect_mergeable_sequence would go round
\* the cycle for ever).
C29_MergeTerminates == pc # "diverged"

\* the position of the  subgraph cluster_  line that encloses position k of
\* the document, 0 outside of every cluster
cluster_at(doc, k) ==
  LET starts == {i \in 1 .. (k - 1) : doc[i] = "    subgraph cluster_"}
  IN IF starts = {} THEN 0
     ELSE CHOOSE p \in starts : \A q \in starts : q <= p

\* (cluster, identifier) of the node lines  node_<id> [..]  of the document
declared_ids(doc) ==
  {<<cluster_at(doc, k), doc[k + 1]>> :
     k \in {i \in 2 .. (Len(doc) - 2) :
              /\ doc[i] = "node_"
              /\ doc[i - 1] # " -> "
              /\ doc[i + 2] = " ["}}

\* (cluster, identifier) of the ends of the edge lines  node_<a> -> node_<b>
referred_ids(doc) ==
  {<<cluster_at(doc, k), doc[k + 1]>> :
     k \in {i \in 2 .. (Len(doc) - 2) :
              /\ doc[i] = "node_"
              /\ doc[i - 1] = " -> " \/ doc[i + 2] = " -> "}}

\* C30: in the document that merge_graphs puts together each identifier
\* node_<id> denotes a node of exactly one file: no two clusters declare the
\* same identifier, and no edge line of one cluster refers to a node that
\* another cluster declares.
C30_OneFilePerIdentifier ==
  dot_content # <<>> =>
    /\ \A d1, d2 \in declared_ids(dot_content) :
         d1[2] = d2[2] => d1[1] = d2[1]
    /\ \A r \in referred_ids(dot_content) :
         \A d \in declared_ids(dot_content) :
           r[2] = d[2] => r[1] = d[1]

====
